---- MODULE Spec2Model ----
(***************************************************************************)
(* Verification model of the Tracker-Desktop bridge.                       *)
(*                                                                         *)
(*   SpecHost : native-host/native-host.js  (Stream Relay Host)            *)
(*   SpecEnc  : native-host/native-host.js  (sendMessage, the encoder)     *)
(*   SpecSup  : electron/src/main/python-bridge.ts (PythonBridge)          *)
(*   SpecSupRace : the same with room for one more child process           *)
(*   SpecSrv  : electron/src/main/native-messaging.ts                      *)
(*              (NativeMessagingServer)                                    *)
(*   SpecSrvBody : the same with backend answers that lack a session id    *)
(*   SpecTrk  : electron/src/main/native-messaging.ts                      *)
(*              (DesktopActivityTracker, lines 255-689)                    *)
(*   SpecIdle : the tracker on one window over the 72 s idle scenario      *)
(*   SpecTitle : the tracker with a window that changes its title          *)
(*   SpecApp  : electron/src/main/index.ts (initializeServices), with the  *)
(*              supervisor it starts and the server it starts after it     *)
(*                                                                         *)
(* Each component owns its variables; a specification steps its component  *)
(* and leaves the variables of the others unchanged.                       *)
(***************************************************************************)
EXTENDS Integers, Sequences, FiniteSets, TLC

VARIABLES
    \* ---- Stream Relay Host (native-host.js) ----
    sent,           \* payload texts the extension has framed and written to the host's stdin
    pipe,           \* bytes written to stdin and not yet read by the host
    inputBuffer,    \* native-host.js:141
    reqs,           \* one entry per handleMessage call, in call order: [msg, st]
    serverLog,      \* indices of reqs in the order the Relay Server handled them
    stdout,         \* replies written by sendMessage, in write order: [req, msg]
    exited,         \* "no", or why process.exit was called: "stdin_end", "sigterm"
    encMessage,     \* sendMessage: the value of its parameter message
    encBuffer,      \* sendMessage: the bytes it wrote to stdout, <<>> before the call
    encFeed,        \* what the frame reader made of these bytes: [done, buf, calls, out]
    \* ---- Backend supervisor (python-bridge.ts, class PythonBridge) ----
    procs,          \* the child processes spawned: slot -> "dead", "alive", "term" or "kill"
    process,        \* this.process: 0 for null, else the slot of the ChildProcess held
    isRunning,      \* this.isRunning
    healthCheckTimer, \* this.healthCheckTimer holds an armed interval
    leakedTimer,    \* an interval is armed that this.healthCheckTimer no longer holds
    restartAttempts, \* this.restartAttempts
    restartTimers,  \* pending setTimeout(() => this.start(), delay): the delays
    starting,       \* calls of start() that are inside waitForReady
    stopWait,       \* slot -> calls of stop() that wait for this process's exit or for 5 s
    emitted,        \* what the last step logged and emitted, in order
    nRestarts,      \* observer: restarts scheduled by this instance (counted up to 4)
    nSinceStarted,  \* observer: restarts scheduled since the last 'started' event
    \* ---- Relay Server (native-messaging.ts, class NativeMessagingServer) ----
    currentSession, \* this.currentSession: 0 for null, else the session id held
    extensionConnected, \* this.extensionConnected
    connectionTimeout,  \* this.connectionTimeout: ms until the timer fires, or NoTimer
    calls,          \* backend requests awaited by a handler, in call order: [kind, old, latest, sid]
    sessionsCreated, \* sessions the backend has created; their ids are 1, 2, ...
    srvEmitted,     \* what the last step of the server emitted and replied, in order
    sinceLastMsg,   \* observer: ms since handleMessage was last called (counted up to 130 s)
    flips,          \* observer: times the flag went from true to false since then
    disconnectedEvents, \* observer: 'extensionDisconnected' events since then
    wasConnected,   \* observer: the flag has been true since then
    nConnects,      \* observer: connect messages handled
    latestSession,  \* observer: session id the latest connect got, 0 while it has none
    commandsAccepted, \* observer: the commands sendCommand was called with, in order
    \* ---- Window Focus Tracker (native-messaging.ts, class DesktopActivityTracker) ----
    scenario,       \* environment, fixed: when the user gives no input, the windows, the end
    now,            \* Date.now(), in ms
    focused,        \* environment: the window activeWin() reports, NoWindow for none
    pollTimer,      \* this.pollTimer: ms until the interval fires next, or NoTimer
    trkRunning,     \* this.isRunning of the tracker
    currentWindow,  \* this.currentWindow, NoWindow for null
    windowStartTime, \* this.windowStartTime in ms, NoTime for null
    isUserIdle,     \* this.isUserIdle
    idleStartTime,  \* this.idleStartTime in ms, NoTime for null
    accumulatedIdleTime, \* this.accumulatedIdleTime
    tasks,          \* poll() and stop() calls that wait on an await: [kind, pc, then, win]
    trkEmitted,     \* what the last step of the tracker submitted and emitted, in order
    lastEnd,        \* observer: window id -> latest endTime submitted for it, NoTime for none
    stopResolved,   \* observer: stop() has resolved and start() was not called since
    idleSince,      \* observer: when 'idleStateChanged' true was last emitted, NoTime for never
    idleInWindow,   \* observer: ms the idle flag was true since windowStartTime was set
    \* ---- Application start-up (index.ts, initializeServices) ----
    appPc,          \* initializeServices: "idle", "ready", "awaitBackend", "initialized", "failed"
    listening,      \* nativeMessagingServer.start() was called and the port is bound
    refused         \* observer: a request of the host found nothing listening on the port

hostVars == <<sent, pipe, inputBuffer, reqs, serverLog, stdout, exited>>

supVars == <<procs, process, isRunning, healthCheckTimer, leakedTimer, restartAttempts,
             restartTimers, starting, stopWait, emitted, nRestarts, nSinceStarted>>

srvVars == <<currentSession, extensionConnected, connectionTimeout, calls, sessionsCreated,
             srvEmitted, sinceLastMsg, flips, disconnectedEvents, wasConnected,
             nConnects, latestSession, commandsAccepted>>

trkVars == <<scenario, now, focused, pollTimer, trkRunning, currentWindow, windowStartTime,
             isUserIdle, idleStartTime, accumulatedIdleTime, tasks, trkEmitted, lastEnd,
             stopResolved, idleSince, idleInWindow>>

encVars == <<encMessage, encBuffer, encFeed>>

appVars == <<appPc, listening, refused>>

vars == <<hostVars, supVars, srvVars, trkVars, encVars, appVars>>

(***************************************************************************)
(*                      Stream Relay Host: native-host.js                  *)
(***************************************************************************)

\* Most frames the extension writes in one run.
MaxFrames == 2

Min(a, b) == IF a < b THEN a ELSE b

\* UTF-8 bytes of the JSON texts the extension sends.
\* {"type":"connect"}
TextConnect ==
    <<123,34,116,121,112,101,34,58,34,99,111,110,110,101,99,116,34,125>>
\* {"type":"heartbeat"}
TextHeartbeat ==
    <<123,34,116,121,112,101,34,58,34,104,101,97,114,116,98,101,97,116,34,125>>
\* {"type":"activity_batch"}
TextBatch ==
    <<123,34,116,121,112,101,34,58,34,97,99,116,105,118,105,116,121,95,98,97,116,99,104,34,125>>
\* "é"  (a JSON string; U+00E9 is the two bytes 195 169)
TextString == <<34,195,169,34>>
\* {   (not a JSON text)
TextBroken == <<123>>

\* The payloads the extension sends in this model: the three typed
\* messages, a JSON value without a type, and a payload that is not JSON.
Payloads == {TextConnect, TextHeartbeat, TextBatch, TextString, TextBroken}

NoMessage == [type |-> "none", json |-> "none"]

\* Buffer.toString('utf8'): the characters (code points) of the bytes b. A
\* byte or a cut sequence that is no character decodes to U+FFFD.
RECURSIVE Utf8Decode(_)
Utf8Decode(b) ==
    IF b = <<>> THEN <<>>
    ELSE LET n == IF b[1] < 128 THEN 1
                  ELSE IF b[1] < 192 THEN 0
                  ELSE IF b[1] < 224 THEN 2
                  ELSE IF b[1] < 240 THEN 3 ELSE 4
         IN  IF n = 0 \/ Len(b) < n
             THEN <<65533>> \o Utf8Decode(Tail(b))
             ELSE << CASE n = 1 -> b[1]
                       [] n = 2 -> (b[1] - 192) * 64 + (b[2] - 128)
                       [] n = 3 -> (b[1] - 224) * 4096 + (b[2] - 128) * 64 + (b[3] - 128)
                       [] n = 4 -> (b[1] - 240) * 262144 + (b[2] - 128) * 4096
                                   + (b[3] - 128) * 64 + (b[4] - 128) >>
                  \o Utf8Decode(SubSeq(b, n + 1, Len(b)))

\* JSON.parse on the inside of a string literal: the string, or ok = FALSE
\* at a bare quotation mark, a control character or a cut escape. The
\* texts of the model escape the quotation mark and the reverse solidus
\* only.
RECURSIVE Unescaped(_)
Unescaped(str) ==
    IF str = <<>> THEN [ok |-> TRUE, str |-> <<>>]
    ELSE IF Head(str) = 92
    THEN IF Len(str) >= 2 /\ str[2] \in {34, 92}
         THEN LET r == Unescaped(SubSeq(str, 3, Len(str)))
              IN  [ok |-> r.ok, str |-> <<str[2]>> \o r.str]
         ELSE [ok |-> FALSE, str |-> <<>>]
    ELSE IF Head(str) = 34 \/ Head(str) < 32
    THEN [ok |-> FALSE, str |-> <<>>]
    ELSE LET r == Unescaped(Tail(str))
         IN  [ok |-> r.ok, str |-> <<Head(str)>> \o r.str]

\* JSON.parse on a text of the form {"type":"error","error":"..."}: the
\* object, or ok = FALSE for any other text.
JSONParseError(text) ==
    LET str  == Utf8Decode(text)
        head == <<123,34,116,121,112,101,34,58,34,101,114,114,111,114,34,44,
                  34,101,114,114,111,114,34,58,34>>
        r    == Unescaped(SubSeq(str, Len(head) + 1, Len(str) - 2))
    IN  IF /\ Len(str) >= Len(head) + 2
           /\ SubSeq(str, 1, Len(head)) = head
           /\ SubSeq(str, Len(str) - 1, Len(str)) = <<34, 125>>
           /\ r.ok
        THEN [ok |-> TRUE, value |-> [type |-> "error", error |-> r.str]]
        ELSE [ok |-> FALSE, value |-> NoMessage]

\* Mutant: a text that is not JSON parses to a value.
JSONParseLenient(text) ==
    CASE text = TextConnect   -> [ok |-> TRUE, value |-> [type |-> "connect", json |-> "object"]]
      [] text = TextHeartbeat -> [ok |-> TRUE, value |-> [type |-> "heartbeat", json |-> "object"]]
      [] text = TextBatch     -> [ok |-> TRUE, value |-> [type |-> "activity_batch", json |-> "object"]]
      [] text = TextString    -> [ok |-> TRUE, value |-> [type |-> "undefined", json |-> "string"]]
      [] OTHER                -> [ok |-> TRUE, value |-> NoMessage]

\* JSON.parse on the texts above and on the texts of error objects: the
\* parsed value, or ok = FALSE where JSON.parse throws a SyntaxError
\* (every other byte sequence of the model is a strict prefix or a
\* truncation of these texts and is not JSON).
JSONParse(text) ==
    CASE text = TextConnect   -> [ok |-> TRUE, value |-> [type |-> "connect", json |-> "object"]]
      [] text = TextHeartbeat -> [ok |-> TRUE, value |-> [type |-> "heartbeat", json |-> "object"]]
      [] text = TextBatch     -> [ok |-> TRUE, value |-> [type |-> "activity_batch", json |-> "object"]]
      [] text = TextString    -> [ok |-> TRUE, value |-> [type |-> "undefined", json |-> "string"]]
      [] OTHER                -> JSONParseError(text)

\* The 4-byte little-endian prefix Chrome writes before a payload.
UInt32LE(n) ==
    <<n % 256, (n \div 256) % 256, (n \div 65536) % 256, (n \div 16777216) % 256>>

\* A frame as the extension side writes it: prefix, then the payload bytes.
Frame(text) == UInt32LE(Len(text)) \o text

\* Buffer.readUInt32LE(0)
readUInt32LE(buf) ==
    buf[1] + 256 * buf[2] + 65536 * buf[3] + 16777216 * buf[4]

\* Buffer.slice(from, to): zero-based, end exclusive, clamped to the buffer.
Slice(buf, from, to) == SubSeq(buf, from + 1, Min(to, Len(buf)))

\* Mutant: the 4 prefix bytes are left out of the completeness test.
FrameCompleteNoPrefix(buf) == Len(buf) >= readUInt32LE(buf)

\* native-host.js:154, negated: the whole frame is in the buffer.
FrameComplete(buf) == Len(buf) >= 4 + readUInt32LE(buf)

\* The reply sendMessage writes at native-host.js:170 for a payload that
\* does not parse.
InvalidJsonReply == [type |-> "error", error |-> "Invalid JSON message"]

\* native-host.js:149-175: the inner loop of the readable handler over the
\* buffer buf. st carries what the loop changes: the buffer, the
\* handleMessage calls started and the frames written to stdout.
RECURSIVE ParseLoop(_)
ParseLoop(st) ==
    IF Len(st.buf) >= 4 /\ FrameComplete(st.buf)
    THEN LET messageLength == readUInt32LE(st.buf)
             messageJson   == Slice(st.buf, 4, 4 + messageLength)
             rest          == Slice(st.buf, 4 + messageLength, Len(st.buf))
             parsed        == JSONParse(messageJson)
         IN  IF parsed.ok
             THEN ParseLoop([buf |-> rest,
                             calls |-> Append(st.calls, [msg |-> parsed.value, st |-> "inflight"]),
                             out |-> st.out])
             ELSE ParseLoop([buf |-> rest,
                             calls |-> st.calls,
                             out |-> Append(st.out, [req |-> 0, msg |-> InvalidJsonReply])])
    ELSE st

\* Mutant: the reply carries the transport error whatever the kind.
ErrorReplyTransport(message, errorMessage) == [type |-> "error", error |-> errorMessage]

\* native-host.js:114-136: the reply synthesized when the forward fails.
ErrorReply(message, errorMessage) ==
    CASE message.type = "connect" ->
            [type |-> "error", error |-> "Desktop app not running. Please start the Focus App."]
      [] message.type = "activity_batch" ->
            [type |-> "error", error |-> "Failed to process activity batch"]
      [] message.type = "heartbeat" ->
            [type |-> "error", error |-> "Desktop app not responding"]
      [] OTHER ->
            [type |-> "error", error |-> errorMessage]

\* What the Relay Server's HTTP response parses to at native-host.js:78.
\* handleRequest ends every response with a JSON body
\* (native-messaging.ts:82, 97, 101), so the fallback of native-host.js:81
\* is not reached with this server.
Responses == { [type |-> "reply", error |-> "none"] }

\* Error.message of a failed forward: a socket error (native-host.js:86-89)
\* or the timeout (native-host.js:91-94).
ForwardErrors == {"connect ECONNREFUSED 127.0.0.1:8765", "Request timeout"}

\* Most characters of the text a message carries.
MaxChars == 3

\* Characters are Unicode code points. The texts of the messages are made
\* of: a, the quotation mark, e acute (U+00E9), the euro sign (U+20AC) and
\* the grinning face (U+1F600).
Chars == {97, 34, 233, 8364, 128512}

\* The messages sendMessage is called with: error replies whose text is
\* any string of at most MaxChars characters.
Messages ==
    { [type |-> "error", error |-> str] :
        str \in UNION { [1..n -> Chars] : n \in 0..MaxChars } }

\* JSON.stringify of a string's characters: the quotation mark and the
\* reverse solidus are escaped, the other characters of Chars stand as
\* they are.
RECURSIVE Escaped(_)
Escaped(str) ==
    IF str = <<>> THEN <<>>
    ELSE (IF Head(str) \in {34, 92} THEN <<92, Head(str)>> ELSE <<Head(str)>>)
         \o Escaped(Tail(str))

\* native-host.js:40: JSON.stringify(message), as characters:
\* {"type":"error","error":"..."}
JSONStringify(msg) ==
    <<123,34,116,121,112,101,34,58,34,101,114,114,111,114,34,44,
      34,101,114,114,111,114,34,58,34>>
    \o Escaped(msg.error) \o <<34,125>>

\* String.length: UTF-16 code units, two for a character above U+FFFF.
RECURSIVE StringLength(_)
StringLength(str) ==
    IF str = <<>> THEN 0
    ELSE (IF Head(str) > 65535 THEN 2 ELSE 1) + StringLength(Tail(str))

\* The UTF-8 bytes of one character.
Utf8Char(c) ==
    IF c < 128 THEN <<c>>
    ELSE IF c < 2048 THEN <<192 + (c \div 64), 128 + (c % 64)>>
    ELSE IF c < 65536
    THEN <<224 + (c \div 4096), 128 + ((c \div 64) % 64), 128 + (c % 64)>>
    ELSE <<240 + (c \div 262144), 128 + ((c \div 4096) % 64), 128 + ((c \div 64) % 64),
           128 + (c % 64)>>

\* Buffer.byteLength(str, 'utf8') and the bytes themselves.
RECURSIVE Utf8(_)
Utf8(str) == IF str = <<>> THEN <<>> ELSE Utf8Char(Head(str)) \o Utf8(Tail(str))

\* Buffer.write(str, offset) into room bytes: the UTF-8 bytes of as many
\* leading characters as fit whole.
RECURSIVE BufferWrite(_, _)
BufferWrite(str, room) ==
    IF str = <<>> \/ Len(Utf8Char(Head(str))) > room THEN <<>>
    ELSE Utf8Char(Head(str)) \o BufferWrite(Tail(str), room - Len(Utf8Char(Head(str))))

\* native-host.js:39-50: the bytes sendMessage writes to stdout. The
\* buffer is allocated zero-filled with 4 + json.length bytes, json.length
\* is written as the prefix and the text from offset 4.
sendMessage(msg) ==
    LET json    == JSONStringify(msg)
        written == BufferWrite(json, StringLength(json))
    IN  UInt32LE(StringLength(json))
        \o written
        \o [k \in 1..(StringLength(json) - Len(written)) |-> 0]

\* sendMessage before its call with one of the messages msgs.
EncInit(msgs) ==
    /\ encMessage \in msgs
    /\ encBuffer = <<>>
    /\ encFeed = [done |-> FALSE, buf |-> <<>>, calls |-> <<>>, out |-> <<>>]

\* The encoder as the other specifications hold it.
EncIdle == EncInit({[type |-> "error", error |-> <<>>]})

\* native-host.js:39-50: sendMessage(message) is called.
SendMessage ==
    /\ encBuffer = <<>>
    /\ encBuffer' = sendMessage(encMessage)
    /\ UNCHANGED <<encMessage, encFeed>>
    /\ UNCHANGED <<hostVars, supVars, srvVars, trkVars, appVars>>

\* native-host.js:143-177: the bytes sendMessage wrote arrive as one chunk
\* at a frame reader with an empty inputBuffer.
FeedEncoded ==
    /\ encBuffer # <<>>
    /\ ~encFeed.done
    /\ LET r == ParseLoop([buf |-> encBuffer, calls |-> <<>>, out |-> <<>>])
       IN  encFeed' = [done |-> TRUE, buf |-> r.buf, calls |-> r.calls, out |-> r.out]
    /\ UNCHANGED <<encMessage, encBuffer>>
    /\ UNCHANGED <<hostVars, supVars, srvVars, trkVars, appVars>>

EncNext == SendMessage \/ FeedEncoded

HostInit ==
    /\ sent = <<>>
    /\ pipe = <<>>
    /\ inputBuffer = <<>>
    /\ reqs = <<>>
    /\ serverLog = <<>>
    /\ stdout = <<>>
    /\ exited = "no"

\* The extension (through Chrome) writes one framed message to the host's stdin.
ExtSend(text) ==
    /\ exited = "no"
    /\ Len(sent) < MaxFrames
    /\ sent' = Append(sent, text)
    /\ pipe' = pipe \o Frame(text)
    /\ UNCHANGED <<supVars, srvVars, trkVars, encVars, appVars>>
    /\ UNCHANGED <<inputBuffer, reqs, serverLog, stdout, exited>>

\* native-host.js:143-177: the readable handler takes a chunk of k bytes
\* (process.stdin.read()), appends it to inputBuffer and runs the parse loop.
\* handleMessage (104-109) runs up to its await: the forward is started.
Readable(k) ==
    /\ exited = "no"
    /\ k \in 1..Len(pipe)
    /\ LET chunk == SubSeq(pipe, 1, k)
           r     == ParseLoop([buf |-> inputBuffer \o chunk, calls |-> <<>>, out |-> <<>>])
       IN  /\ pipe' = SubSeq(pipe, k + 1, Len(pipe))
           /\ inputBuffer' = r.buf
           /\ reqs' = reqs \o r.calls
           /\ stdout' = stdout \o r.out
    /\ UNCHANGED <<supVars, srvVars, trkVars, encVars, appVars>>
    /\ UNCHANGED <<sent, serverLog, exited>>

\* native-host.js:179-182: the extension closed stdin and the host has read
\* all data written before: the 'end' event fires and the host exits.
StdinEnd ==
    /\ exited = "no"
    /\ pipe = <<>>
    /\ exited' = "stdin_end"
    /\ UNCHANGED <<supVars, srvVars, trkVars, encVars, appVars>>
    /\ UNCHANGED <<sent, pipe, inputBuffer, reqs, serverLog, stdout>>

\* native-host.js:189-192
Sigterm ==
    /\ exited = "no"
    /\ exited' = "sigterm"
    /\ UNCHANGED <<supVars, srvVars, trkVars, encVars, appVars>>
    /\ UNCHANGED <<sent, pipe, inputBuffer, reqs, serverLog, stdout>>

\* The POST of request i reaches the Relay Server, whose handleRequest
\* (native-messaging.ts:79-104) handles it. Every forward is its own
\* http.request (native-host.js:71), so requests in flight are independent.
ServerHandle(i) ==
    /\ i \in 1..Len(reqs)
    /\ reqs[i].st = "inflight"
    /\ reqs' = [reqs EXCEPT ![i].st = "served"]
    /\ serverLog' = Append(serverLog, i)
    /\ UNCHANGED <<supVars, srvVars, trkVars, encVars, appVars>>
    /\ UNCHANGED <<sent, pipe, inputBuffer, stdout, exited>>

\* native-host.js:76-83 then 109-110: the response of request i ends, the
\* promise resolves and handleMessage writes the reply.
ForwardResolve(i, response) ==
    /\ exited = "no"
    /\ i \in 1..Len(reqs)
    /\ reqs[i].st = "served"
    /\ reqs' = [reqs EXCEPT ![i].st = "done"]
    /\ stdout' = Append(stdout, [req |-> i, msg |-> response])
    /\ UNCHANGED <<supVars, srvVars, trkVars, encVars, appVars>>
    /\ UNCHANGED <<sent, pipe, inputBuffer, serverLog, exited>>

\* native-host.js:86-94 then 111-136: the request fails (socket error or
\* the 5 s timeout), the promise rejects and handleMessage writes the
\* error reply of the message's kind.
ForwardReject(i, errorMessage) ==
    /\ exited = "no"
    /\ i \in 1..Len(reqs)
    /\ reqs[i].st \in {"inflight", "served"}
    /\ reqs' = [reqs EXCEPT ![i].st = "done"]
    /\ stdout' = Append(stdout, [req |-> i, msg |-> ErrorReply(reqs[i].msg, errorMessage)])
    /\ UNCHANGED <<supVars, srvVars, trkVars, encVars, appVars>>
    /\ UNCHANGED <<sent, pipe, inputBuffer, serverLog, exited>>

HostNext ==
    \/ \E text \in Payloads : ExtSend(text)
    \/ \E k \in 1..Len(pipe) : Readable(k)
    \/ StdinEnd
    \/ Sigterm
    \/ \E i \in 1..Len(reqs) : ServerHandle(i)
    \/ \E i \in 1..Len(reqs), response \in Responses : ForwardResolve(i, response)
    \/ \E i \in 1..Len(reqs), e \in ForwardErrors : ForwardReject(i, e)

(***************************************************************************)
(*                 Backend supervisor: python-bridge.ts                    *)
(***************************************************************************)

\* python-bridge.ts:15
MAX_RESTART_ATTEMPTS == 3
\* python-bridge.ts:152: the factor of the restart delay, in ms
RESTART_DELAY_MS == 2000

\* Child processes that run at once. SpecSup has MaxProcs slots for them,
\* SpecSupRace one more. A slot is taken again once its process has exited
\* and no stop() waits on it.
MaxProcs == 1
\* Calls of start() inside waitForReady, calls of stop() waiting on one
\* process, and restart timers pending, at once.
MaxPending == 1

Slots == DOMAIN procs

\* code of an 'exit' event whose process was ended by a signal (null)
NullCode == -1

\* A child process is gone ("dead"), or it runs: "alive", or "term" once
\* SIGTERM was sent to it, or "kill" once SIGKILL was sent to it.
Alive(st) == st \in {"alive", "term", "kill"}

\* One entry of what a step logs or emits.
Ev(name, what) == [ev |-> name, what |-> what, code |-> 0, signal |-> "none"]
\* python-bridge.ts:144: the exit handler logs the code and the signal
ExitLog(code, signal) == [ev |-> "exit", what |-> "", code |-> code, signal |-> signal]

Stopped == Ev("stopped", "")
Started == Ev("started", "")
StartupTimeoutError == Ev("error", "Backend startup timeout")
HealthCheckError == Ev("error", "Health check failed")

RECURSIVE Repeat(_, _)
Repeat(e, n) == IF n = 0 THEN <<>> ELSE <<e>> \o Repeat(e, n - 1)

RemoveAt(seq, i) == SubSeq(seq, 1, i - 1) \o SubSeq(seq, i + 1, Len(seq))

\* Slots whose process is gone and on which no stop() waits (start()
\* overwrites this.process, so the handle it holds does not keep a slot).
FreeSlots == {i \in Slots : procs[i] = "dead" /\ stopWait[i] = 0}

\* python-bridge.ts:190-192: GET /api/health can answer 200 when a backend
\* process runs (whether it does answer is up to that process).
\* Mutant: a health check passes with no child process running.
BackendUpUnchecked == TRUE

BackendUp == \E i \in Slots : Alive(procs[i])

\* ChildProcess.kill(sig): a signal sent to a process that is gone does nothing.
Kill(pr, i, sig) ==
    IF i = 0 \/ ~Alive(pr[i]) THEN pr
    ELSE IF sig = "SIGKILL" THEN [pr EXCEPT ![i] = "kill"]
    ELSE IF pr[i] = "alive" THEN [pr EXCEPT ![i] = "term"]
    ELSE pr

\* Mutant: the restart budget is not tested.
ShouldRestartNoBudget(code, signal, attempts) == code # 0 /\ signal = "none"

\* Mutant: the signal is not tested.
ShouldRestartAnySignal(code, signal, attempts) ==
    code # 0 /\ attempts < MAX_RESTART_ATTEMPTS

\* python-bridge.ts:149
ShouldRestart(code, signal, attempts) ==
    code # 0 /\ signal = "none" /\ attempts < MAX_RESTART_ATTEMPTS

\* Mutant: the delay is taken before the counter is incremented.
RestartDelayStale(attempts) == RESTART_DELAY_MS * (attempts - 1)

\* python-bridge.ts:152: attempts is this.restartAttempts after the increment
RestartDelay(attempts) == RESTART_DELAY_MS * attempts

SupInit(n) ==
    /\ procs = [i \in 1..n |-> "dead"]
    /\ process = 0
    /\ isRunning = FALSE
    /\ healthCheckTimer = FALSE
    /\ leakedTimer = FALSE
    /\ restartAttempts = 0
    /\ restartTimers = <<>>
    /\ starting = 0
    /\ stopWait = [i \in 1..n |-> 0]
    /\ emitted = <<>>
    /\ nRestarts = 0
    /\ nSinceStarted = 0

\* python-bridge.ts:46-56 and 104-159: start() up to its first await. When
\* already running it returns; else spawnProcess stores the new child in
\* this.process and the call goes on to waitForReady.
StartBody ==
    IF isRunning
    THEN UNCHANGED <<procs, process, starting>>
    ELSE /\ FreeSlots # {}
         /\ starting < MaxPending
         /\ LET p == CHOOSE i \in FreeSlots : \A j \in FreeSlots : i <= j
            IN  /\ procs' = [procs EXCEPT ![p] = "alive"]
                /\ process' = p
         /\ starting' = starting + 1

\* A caller calls start() (index.ts:105, ipc-handlers.ts:97).
CallerStart ==
    /\ StartBody
    /\ emitted' = <<>>
    /\ UNCHANGED <<isRunning, healthCheckTimer, leakedTimer, restartAttempts,
                   restartTimers, stopWait, nRestarts, nSinceStarted>>
    /\ UNCHANGED <<hostVars, srvVars, trkVars, encVars, appVars>>

\* python-bridge.ts:152: a restart timer fires and calls start().
RestartTimerFires(i) ==
    /\ i \in 1..Len(restartTimers)
    /\ restartTimers' = RemoveAt(restartTimers, i)
    /\ StartBody
    /\ emitted' = <<>>
    /\ UNCHANGED <<isRunning, healthCheckTimer, leakedTimer, restartAttempts,
                   stopWait, nRestarts, nSinceStarted>>
    /\ UNCHANGED <<hostVars, srvVars, trkVars, encVars, appVars>>

\* Mutant: a start that reaches running leaves restartAttempts as it is.
StartResolvesKeepsCount ==
    /\ starting > 0
    /\ BackendUp
    /\ starting' = starting - 1
    /\ leakedTimer' = (leakedTimer \/ healthCheckTimer)
    /\ healthCheckTimer' = TRUE
    /\ isRunning' = TRUE
    /\ nSinceStarted' = 0
    /\ emitted' = <<Started>>
    /\ UNCHANGED <<procs, process, restartTimers, stopWait, nRestarts, restartAttempts>>

\* python-bridge.ts:168-171 then 57-60: a health check of waitForReady
\* passes; start() arms the periodic check (210-219, overwriting the field),
\* sets isRunning, resets restartAttempts and emits 'started'.
StartResolves ==
    /\ starting > 0
    /\ BackendUp
    /\ starting' = starting - 1
    /\ leakedTimer' = (leakedTimer \/ healthCheckTimer)
    /\ healthCheckTimer' = TRUE
    /\ isRunning' = TRUE
    /\ restartAttempts' = 0
    /\ nSinceStarted' = 0
    /\ emitted' = <<Started>>
    /\ UNCHANGED <<procs, process, restartTimers, stopWait, nRestarts>>

StartSucceeds ==
    /\ StartResolves
    /\ UNCHANGED <<hostVars, srvVars, trkVars, encVars, appVars>>

\* python-bridge.ts:172-175 then 61-65: a health check of waitForReady
\* fails after the startup timeout has passed; start() emits 'error' and
\* throws. The process it spawned is left as it is.
StartRejects ==
    /\ starting > 0
    /\ starting' = starting - 1
    /\ emitted' = <<StartupTimeoutError>>
    /\ UNCHANGED <<procs, process, isRunning, healthCheckTimer, leakedTimer,
                   restartAttempts, restartTimers, stopWait, nRestarts, nSinceStarted>>

StartTimesOut ==
    /\ StartRejects
    /\ UNCHANGED <<hostVars, srvVars, trkVars, encVars, appVars>>

\* Mutant: a failed periodic health check also clears isRunning.
PeriodicHealthCheckStops(ok) ==
    /\ healthCheckTimer \/ leakedTimer
    /\ ok => BackendUp
    /\ emitted' = IF ok THEN <<>> ELSE <<HealthCheckError>>
    /\ isRunning' = (isRunning /\ ok)
    /\ UNCHANGED <<procs, process, healthCheckTimer, leakedTimer, restartAttempts,
                   restartTimers, starting, stopWait, nRestarts, nSinceStarted>>
    /\ UNCHANGED <<hostVars, srvVars, trkVars, encVars, appVars>>

\* python-bridge.ts:211-218: an armed interval runs a health check; a
\* failed one emits 'error'.
PeriodicHealthCheck(ok) ==
    /\ healthCheckTimer \/ leakedTimer
    /\ ok => BackendUp
    /\ emitted' = IF ok THEN <<>> ELSE <<HealthCheckError>>
    /\ UNCHANGED <<procs, process, isRunning, healthCheckTimer, leakedTimer, restartAttempts,
                   restartTimers, starting, stopWait, nRestarts, nSinceStarted>>
    /\ UNCHANGED <<hostVars, srvVars, trkVars, encVars, appVars>>

\* python-bridge.ts:143-154, then 88-97 for every stop() waiting on this
\* process: the child in slot p exits with (code, signal). The exit handler
\* clears isRunning, emits 'stopped' and may schedule a restart; each
\* waiting stop() resolves, drops this.process, clears isRunning and emits
\* 'stopped'.
ProcessExits(p, code, signal) ==
    /\ Alive(procs[p])
    /\ (signal = "none") = (code # NullCode)
    /\ signal = "SIGTERM" => procs[p] \in {"term", "kill"}
    /\ signal = "SIGKILL" => procs[p] = "kill"
    /\ procs' = [procs EXCEPT ![p] = "dead"]
    /\ isRunning' = FALSE
    /\ LET restart == ShouldRestart(code, signal, restartAttempts)
       IN  /\ restart => Len(restartTimers) < MaxPending
           /\ restartAttempts' = IF restart THEN restartAttempts + 1 ELSE restartAttempts
           /\ restartTimers' = IF restart
                               THEN Append(restartTimers, RestartDelay(restartAttempts + 1))
                               ELSE restartTimers
           /\ nRestarts' = IF restart THEN Min(nRestarts + 1, MAX_RESTART_ATTEMPTS + 1)
                           ELSE nRestarts
           /\ nSinceStarted' = IF restart THEN nSinceStarted + 1 ELSE nSinceStarted
    /\ process' = IF stopWait[p] > 0 THEN 0 ELSE process
    /\ stopWait' = [stopWait EXCEPT ![p] = 0]
    /\ emitted' = <<ExitLog(code, signal), Stopped>> \o Repeat(Stopped, stopWait[p])
    /\ UNCHANGED <<healthCheckTimer, leakedTimer, starting>>
    /\ UNCHANGED <<hostVars, srvVars, trkVars, encVars, appVars>>

\* python-bridge.ts:71-99: stop() up to its await. stopHealthCheck clears
\* the interval the field holds; with a process handle SIGTERM is sent and
\* the call waits for the exit or for 5 s; with none it finishes at once.
CallerStop ==
    /\ healthCheckTimer' = FALSE
    /\ IF process # 0
       THEN /\ stopWait[process] < MaxPending
            /\ procs' = Kill(procs, process, "SIGTERM")
            /\ stopWait' = [stopWait EXCEPT ![process] = @ + 1]
            /\ emitted' = <<>>
            /\ UNCHANGED <<process, isRunning>>
       ELSE /\ isRunning' = FALSE
            /\ emitted' = <<Stopped>>
            /\ UNCHANGED <<procs, process, stopWait>>
    /\ UNCHANGED <<leakedTimer, restartAttempts, restartTimers, starting,
                   nRestarts, nSinceStarted>>
    /\ UNCHANGED <<hostVars, srvVars, trkVars, encVars, appVars>>

\* python-bridge.ts:81-86 then 94-98: the 5 s timer of a stop() that waits
\* on the process in slot p fires: SIGKILL goes to the process this.process
\* holds now, the call resolves, drops this.process, clears isRunning and
\* emits 'stopped'.
StopTimesOut(p) ==
    /\ stopWait[p] > 0
    /\ procs' = Kill(procs, process, "SIGKILL")
    /\ stopWait' = [stopWait EXCEPT ![p] = @ - 1]
    /\ process' = 0
    /\ isRunning' = FALSE
    /\ emitted' = <<Stopped>>
    /\ UNCHANGED <<healthCheckTimer, leakedTimer, restartAttempts, restartTimers,
                   starting, nRestarts, nSinceStarted>>
    /\ UNCHANGED <<hostVars, srvVars, trkVars, encVars, appVars>>

ExitStatuses ==
    { <<0, "none">>, <<1, "none">>, <<NullCode, "SIGTERM">>, <<NullCode, "SIGKILL">> }

SupNext ==
    \/ CallerStart
    \/ \E i \in 1..MaxPending : RestartTimerFires(i)
    \/ StartSucceeds
    \/ StartTimesOut
    \/ \E ok \in BOOLEAN : PeriodicHealthCheck(ok)
    \/ \E p \in Slots, x \in ExitStatuses : ProcessExits(p, x[1], x[2])
    \/ CallerStop
    \/ \E p \in Slots : StopTimesOut(p)

(***************************************************************************)
(*                   Relay Server: native-messaging.ts                     *)
(***************************************************************************)

\* native-messaging.ts:237: the delay of the connection timer, in ms
CONNECTION_TIMEOUT_MS == 120000
\* python-bridge.ts:247: the timeout of a backend request, in ms
REQUEST_TIMEOUT_MS == 10000

\* Time advances in steps of the smaller of the two.
Tick == REQUEST_TIMEOUT_MS

\* Connect messages the server handles in one run.
MaxConnects == 2
\* Backend requests that handlers await at once.
MaxInFlight == 2
\* Commands the operator sends in one run.
MaxCommands == 1

\* native-messaging.ts:30: this.connectionTimeout is null, or the timer it
\* holds has fired
NoTimer == -1

SrvEv(name, sid) == [ev |-> name, sid |-> sid]

\* native-messaging.ts:14-17 and 168-169: the messages told apart by the
\* server: the three kinds, a batch without events, and any other type.
MessageKinds == {"connect", "activity_batch", "empty_batch", "heartbeat", "other"}

\* Mutant: the events are stamped with no session.
StampSessionNull(session) == 0

\* native-messaging.ts:140: the sessionId read from an answer that has no
\* session_id, undefined.
UndefinedId == -1

\* native-messaging.ts:178: this.currentSession?.sessionId || null, with 0
\* for null
StampSession(session) == IF session # 0 /\ session # UndefinedId THEN session ELSE 0

\* Mutant: the pending timer is cleared and none is armed.
resetConnectionTimeoutClears(timer) == NoTimer

\* Mutant: a pending timer is kept instead of being replaced.
resetConnectionTimeoutKeep(timer) ==
    IF timer # NoTimer THEN timer ELSE CONNECTION_TIMEOUT_MS

\* native-messaging.ts:226-238: the pending timer, if any, is cleared and
\* a new one of 120 s is armed.
resetConnectionTimeout(timer) == CONNECTION_TIMEOUT_MS

SrvInit ==
    /\ currentSession = 0
    /\ extensionConnected = FALSE
    /\ connectionTimeout = NoTimer
    /\ calls = <<>>
    /\ sessionsCreated = 0
    /\ srvEmitted = <<>>
    /\ sinceLastMsg = 0
    /\ flips = 0
    /\ disconnectedEvents = 0
    /\ wasConnected = FALSE
    /\ nConnects = 0
    /\ latestSession = 0
    /\ commandsAccepted = <<>>

\* A connect has arrived: no call in flight belongs to the latest connect
\* or follows it any more.
Outdated(cs) == [i \in 1..Len(cs) |-> [cs[i] EXCEPT !.latest = FALSE]]

\* native-messaging.ts:91-94, 109-128 and the handler up to its await: a
\* request body that parses is handled. The connection timer is re-armed
\* first; connect and a batch with events call the backend and wait; the
\* other kinds are answered at once.
SrvHandle(kind) ==
    /\ connectionTimeout' = resetConnectionTimeout(connectionTimeout)
    /\ sinceLastMsg' = 0
    /\ flips' = 0
    /\ disconnectedEvents' = 0
    /\ wasConnected' = extensionConnected
    /\ CASE kind = "connect" ->
              /\ nConnects < MaxConnects
              /\ Len(calls) < MaxInFlight
              /\ calls' = Append(Outdated(calls),
                                 [kind |-> "createSession", old |-> FALSE,
                                  latest |-> TRUE, sid |-> 0])
              /\ nConnects' = nConnects + 1
              /\ latestSession' = 0
              /\ srvEmitted' = <<>>
         [] kind = "activity_batch" ->
              /\ Len(calls) < MaxInFlight
              /\ calls' = Append(calls,
                                 [kind |-> "submitActivityBatch", old |-> FALSE,
                                  latest |-> TRUE, sid |-> StampSession(currentSession)])
              /\ srvEmitted' = <<>>
              /\ UNCHANGED <<nConnects, latestSession>>
         [] kind = "empty_batch" ->
              /\ srvEmitted' = <<SrvEv("reply ack", 0)>>
              /\ UNCHANGED <<calls, nConnects, latestSession>>
         [] kind = "heartbeat" ->
              /\ srvEmitted' = <<SrvEv("reply ack", currentSession)>>
              /\ UNCHANGED <<calls, nConnects, latestSession>>
         [] OTHER ->
              /\ srvEmitted' = <<SrvEv("reply error", 0)>>
              /\ UNCHANGED <<calls, nConnects, latestSession>>
    /\ UNCHANGED <<currentSession, extensionConnected, sessionsCreated, commandsAccepted>>
    /\ UNCHANGED <<hostVars, supVars, trkVars, encVars, appVars>>

\* native-messaging.ts:91-103: the body of a request is not JSON:
\* JSON.parse throws, handleMessage is not called, and the catch answers
\* with status 500 and { type: 'error', error }.
SrvBadRequest ==
    /\ srvEmitted # <<SrvEv("reply 500", 0)>>
    /\ srvEmitted' = <<SrvEv("reply 500", 0)>>
    /\ UNCHANGED <<currentSession, extensionConnected, connectionTimeout, calls,
                   sessionsCreated, sinceLastMsg, flips, disconnectedEvents, wasConnected,
                   nConnects, latestSession, commandsAccepted>>
    /\ UNCHANGED <<hostVars, supVars, trkVars, encVars, appVars>>

\* python-bridge.ts:258-271: what request() resolves with, { success: true,
\* data } or { success: false, error }, for the call of this kind.
RequestResult(kind, ok) == [ev |-> "request", kind |-> kind, success |-> ok]

\* Mutant: 'extensionConnected' is emitted on every successful connect.
handleConnectAlwaysEmits(ok, sessionId, session, connected) ==
    IF ok
    THEN [session |-> sessionId, connected |-> TRUE,
          out |-> <<SrvEv("extensionConnected", 0), SrvEv("sessionCreated", sessionId),
                    SrvEv("reply session", sessionId)>>]
    ELSE [session |-> session, connected |-> connected,
          out |-> <<SrvEv("reply error", 0)>>]

\* Mutant: a failed connect sets the flag all the same.
handleConnectFailureConnects(ok, sessionId, session, connected) ==
    IF ok
    THEN [session |-> sessionId, connected |-> TRUE,
          out |-> (IF connected THEN <<>> ELSE <<SrvEv("extensionConnected", 0)>>)
                  \o <<SrvEv("sessionCreated", sessionId),
                       SrvEv("reply session", sessionId)>>]
    ELSE [session |-> session, connected |-> TRUE,
          out |-> <<SrvEv("reply error", 0)>>]

\* Mutant: a failed connect drops the session held.
handleConnectDropsSession(ok, sessionId, session, connected) ==
    IF ok
    THEN [session |-> sessionId, connected |-> TRUE,
          out |-> (IF connected THEN <<>> ELSE <<SrvEv("extensionConnected", 0)>>)
                  \o <<SrvEv("sessionCreated", sessionId),
                       SrvEv("reply session", sessionId)>>]
    ELSE [session |-> 0, connected |-> connected,
          out |-> <<SrvEv("reply error", 0)>>]

\* native-messaging.ts:139-161: handleConnect after its await, from the
\* session and the flag held to the session and the flag it leaves and what
\* it emits and replies. "reply session" is the reply { type: 'session',
\* sessionId, status: 'active' } of lines 151-155.
handleConnect(ok, sessionId, session, connected) ==
    IF ok
    THEN [session |-> sessionId, connected |-> TRUE,
          out |-> (IF connected THEN <<>> ELSE <<SrvEv("extensionConnected", 0)>>)
                  \o <<SrvEv("sessionCreated", sessionId),
                       SrvEv("reply session", sessionId)>>]
    ELSE [session |-> session, connected |-> connected,
          out |-> <<SrvEv("reply error", 0)>>]

\* Mutant: a failed forward is acknowledged.
handleActivityBatchAcksFailure(ok, sid) ==
    <<SrvEv("eventsReceived", sid), SrvEv("reply ack", 0)>>

\* native-messaging.ts:184-197: handleActivityBatch after its await: what
\* it emits and replies.
handleActivityBatch(ok, sid) ==
    IF ok THEN <<SrvEv("eventsReceived", sid), SrvEv("reply ack", 0)>>
    ELSE <<SrvEv("reply error", 0)>>

\* python-bridge.ts:250-272, then native-messaging.ts:139-161 or 184-197:
\* the backend request i ends, with a parsed answer (ok) or with an error
\* or the timeout. A created session is stored, the flag is set and the
\* events are emitted; then the reply is sent.
BackendAnswers(i, ok) ==
    /\ i \in 1..Len(calls)
    /\ calls' = RemoveAt(calls, i)
    /\ IF calls[i].kind = "createSession"
       THEN LET sessionId == sessionsCreated + 1
                after == handleConnect(ok, sessionId, currentSession, extensionConnected)
            IN  /\ sessionsCreated' = IF ok THEN sessionId ELSE sessionsCreated
                /\ currentSession' = after.session
                /\ extensionConnected' = after.connected
                /\ wasConnected' = (wasConnected \/ after.connected)
                /\ latestSession' = IF ok /\ calls[i].latest THEN sessionId
                                    ELSE latestSession
                /\ srvEmitted' = <<RequestResult(calls[i].kind, ok)>> \o after.out
       ELSE /\ srvEmitted' = <<RequestResult(calls[i].kind, ok)>>
                             \o handleActivityBatch(ok, calls[i].sid)
            /\ UNCHANGED <<sessionsCreated, currentSession, extensionConnected,
                           wasConnected, latestSession>>
    /\ UNCHANGED <<connectionTimeout, sinceLastMsg, flips, disconnectedEvents, nConnects,
                   commandsAccepted>>
    /\ UNCHANGED <<hostVars, supVars, trkVars, encVars, appVars>>

\* python-bridge.ts:258-263, then native-messaging.ts:139-155: the backend
\* answers the createSession request i with a body that is JSON and has no
\* session_id, an error body with a status other than 200 for one; request()
\* does not look at the status and resolves with { success: true, data },
\* and handleConnect takes the session id from data.session_id.
BackendAnswersWithoutId(i) ==
    /\ i \in 1..Len(calls)
    /\ calls[i].kind = "createSession"
    /\ calls' = RemoveAt(calls, i)
    /\ LET after == handleConnect(TRUE, UndefinedId, currentSession, extensionConnected)
       IN  /\ currentSession' = after.session
           /\ extensionConnected' = after.connected
           /\ wasConnected' = (wasConnected \/ after.connected)
           /\ latestSession' = IF calls[i].latest THEN UndefinedId ELSE latestSession
           /\ srvEmitted' = <<RequestResult(calls[i].kind, TRUE)>> \o after.out
    /\ UNCHANGED <<sessionsCreated, connectionTimeout, sinceLastMsg, flips,
                   disconnectedEvents, nConnects, commandsAccepted>>
    /\ UNCHANGED <<hostVars, supVars, trkVars, encVars, appVars>>

\* native-messaging.ts:232-237: the connection timer fires.
ConnectionTimeoutFires ==
    /\ connectionTimeout = 0
    /\ connectionTimeout' = NoTimer
    /\ extensionConnected' = FALSE
    /\ flips' = IF extensionConnected THEN flips + 1 ELSE flips
    /\ disconnectedEvents' = IF extensionConnected THEN disconnectedEvents + 1
                             ELSE disconnectedEvents
    /\ srvEmitted' = IF extensionConnected THEN <<SrvEv("extensionDisconnected", 0)>>
                     ELSE <<>>
    /\ UNCHANGED <<currentSession, calls, sessionsCreated, sinceLastMsg, wasConnected,
                   nConnects, latestSession, commandsAccepted>>
    /\ UNCHANGED <<hostVars, supVars, trkVars, encVars, appVars>>

\* Tick ms pass. A timer that is due fires first, and a backend request
\* that has waited for its timeout (python-bridge.ts:247, 269-272) has
\* ended first.
SrvTick ==
    /\ connectionTimeout # 0
    /\ \A i \in 1..Len(calls) : ~calls[i].old
    /\ connectionTimeout' = IF connectionTimeout = NoTimer THEN NoTimer
                            ELSE connectionTimeout - Tick
    /\ calls' = [i \in 1..Len(calls) |-> [calls[i] EXCEPT !.old = TRUE]]
    /\ sinceLastMsg' = Min(sinceLastMsg + Tick, CONNECTION_TIMEOUT_MS + Tick)
    /\ srvEmitted' = <<>>
    /\ UNCHANGED <<currentSession, extensionConnected, sessionsCreated, flips,
                   disconnectedEvents, wasConnected, nConnects, latestSession,
                   commandsAccepted>>
    /\ UNCHANGED <<hostVars, supVars, trkVars, encVars, appVars>>

\* native-messaging.ts:216-221 (called from ipc-handlers.ts:88-91, which
\* answers { success: true }): sendCommand logs the command and returns;
\* no field of the server is written.
sendCommand(command) ==
    /\ Len(commandsAccepted) < MaxCommands
    /\ commandsAccepted' = Append(commandsAccepted, command)
    /\ srvEmitted' = <<>>
    /\ UNCHANGED <<currentSession, extensionConnected, connectionTimeout, calls,
                   sessionsCreated, sinceLastMsg, flips, disconnectedEvents, wasConnected,
                   nConnects, latestSession>>
    /\ UNCHANGED <<hostVars, supVars, trkVars, encVars, appVars>>

\* native-messaging.ts:151-155, 157-160, 169, 186-190, 193-196, 206-210 and
\* 122-126: the commands a reply of the server carries. No reply has a
\* field for them.
CommandsIn(reply) == <<>>

SrvNext ==
    \/ \E command \in {"pause", "resume", "clear_local"} : sendCommand(command)
    \/ \E kind \in MessageKinds : SrvHandle(kind)
    \/ SrvBadRequest
    \/ \E i \in 1..MaxInFlight, ok \in BOOLEAN : BackendAnswers(i, ok)
    \/ ConnectionTimeoutFires
    \/ SrvTick

\* The server with a backend that may answer createSession without an id.
SrvBodyNext ==
    \/ SrvNext
    \/ \E i \in 1..MaxInFlight : BackendAnswersWithoutId(i)

(***************************************************************************)
(*       Window Focus Tracker: native-messaging.ts, lines 255-689          *)
(***************************************************************************)

\* native-messaging.ts:270-272
POLL_INTERVAL == 1000
MIN_ACTIVITY_DURATION == 1000
IDLE_THRESHOLD_SECONDS == 60

\* Time advances in steps of half a poll interval.
TrkTick == POLL_INTERVAL \div 2

\* Steps of time in one run of SpecTrk.
MaxTicks == 4
\* Calls of poll() and stop() that wait on an await at once.
MaxTasks == 2

\* native-messaging.ts:356-362: null for a Date
NoTime == -1

Max(a, b) == IF a > b THEN a ELSE b

\* native-messaging.ts:301-309: what activeWin() reports. Two application
\* windows and a browser window; NoWindow stands for undefined.
NoWindow == [id |-> 0, pid |-> 0, name |-> "", title |-> ""]
WindowA == [id |-> 1, pid |-> 10, name |-> "Code.exe", title |-> "main.ts"]
WindowB == [id |-> 2, pid |-> 20, name |-> "Notepad", title |-> "notes"]
WindowChrome == [id |-> 3, pid |-> 30, name |-> "Chrome.EXE", title |-> "tab"]
\* WindowA once its application has changed its title.
WindowARetitled == [WindowA EXCEPT !.title = "index.ts"]
WindowIds == {1, 2, 3}

\* native-messaging.ts:275-290
BROWSER_APPS ==
    {"chrome", "google chrome", "firefox", "mozilla firefox", "edge", "msedge",
     "microsoft edge", "brave", "brave browser", "opera", "safari", "vivaldi", "arc",
     "chromium"}

\* native-messaging.ts:297: appName.toLowerCase().replace(/\.exe$/i, '').trim()
\* on the owner names above.
Normalized(appName) ==
    CASE appName = "Code.exe" -> "code"
      [] appName = "Notepad" -> "notepad"
      [] appName = "Chrome.EXE" -> "chrome"
      [] OTHER -> appName

\* Mutant: the name is looked up as it is.
isBrowserAppAsIs(appName) == appName \in BROWSER_APPS

\* native-messaging.ts:296-299
isBrowserApp(appName) == Normalized(appName) \in BROWSER_APPS

\* Environment: the user gives no input from idleFrom up to idleTo and
\* gives input all the other time. powerMonitor.getSystemIdleTime() at
\* time t, in whole seconds.
getSystemIdleTime(sc, t) ==
    IF sc.idleFrom <= t /\ t < sc.idleTo THEN (t - sc.idleFrom) \div 1000 ELSE 0

\* native-messaging.ts:375-378
checkIdleState(sc, t) == getSystemIdleTime(sc, t) >= IDLE_THRESHOLD_SECONDS

TrkEv(name) == [ev |-> name, appName |-> "", windowId |-> 0, startTime |-> 0,
                endTime |-> 0, activeTime |-> 0, idleTime |-> 0]

\* native-messaging.ts:463-482: the idle part of poll() at time t, from
\* the idle fields held to the fields it leaves and the events it emits.
PollIdle(idle, idleNow, t) ==
    IF idleNow /\ ~idle.isUserIdle
    THEN [isUserIdle |-> TRUE, idleStartTime |-> t,
          accumulatedIdleTime |-> idle.accumulatedIdleTime,
          out |-> <<TrkEv("idleStateChanged true")>>]
    ELSE IF ~idleNow /\ idle.isUserIdle
    THEN [isUserIdle |-> FALSE, idleStartTime |-> NoTime,
          accumulatedIdleTime |->
              IF idle.idleStartTime # NoTime
              THEN idle.accumulatedIdleTime + (t - idle.idleStartTime)
              ELSE idle.accumulatedIdleTime,
          out |-> <<TrkEv("idleStateChanged false")>>]
    ELSE [isUserIdle |-> idleNow, idleStartTime |-> idle.idleStartTime,
          accumulatedIdleTime |-> idle.accumulatedIdleTime, out |-> <<>>]

\* Mutant: a window is flushed however short it was tracked.
FlushesAlways(window, startTime, t) == window # NoWindow /\ startTime # NoTime

\* native-messaging.ts:562-572: flushCurrentWindow goes on to build and
\* send an event.
Flushes(window, startTime, t) ==
    /\ window # NoWindow
    /\ startTime # NoTime
    /\ ~(t - startTime < MIN_ACTIVITY_DURATION)

\* Mutant: the idle period that is going on at the flush is not counted.
ActivityEventNoOngoing(window, startTime, idle, t) ==
    LET totalDuration == t - startTime
        totalIdleTime == idle.accumulatedIdleTime
        activeTime == Max(0, totalDuration - totalIdleTime)
    IN  [ev |-> "submit", appName |-> window.name, windowId |-> window.id,
         startTime |-> startTime, endTime |-> t,
         activeTime |-> activeTime, idleTime |-> totalIdleTime]

\* native-messaging.ts:574-592 and 600-633: the event flushCurrentWindow
\* builds at time t.
ActivityEvent(window, startTime, idle, t) ==
    LET totalDuration == t - startTime
        totalIdleTime ==
            idle.accumulatedIdleTime
            + (IF idle.isUserIdle /\ idle.idleStartTime # NoTime
               THEN t - idle.idleStartTime ELSE 0)
        activeTime == Max(0, totalDuration - totalIdleTime)
    IN  [ev |-> "submit", appName |-> window.name, windowId |-> window.id,
         startTime |-> startTime, endTime |-> t,
         activeTime |-> activeTime, idleTime |-> totalIdleTime]

\* The idle fields of the tracker as one record.
IdleFields == [isUserIdle |-> isUserIdle, idleStartTime |-> idleStartTime,
               accumulatedIdleTime |-> accumulatedIdleTime]

\* flushCurrentWindow called now: whether it sends, and what.
FlushesNow == Flushes(currentWindow, windowStartTime, now)
EventNow == ActivityEvent(currentWindow, windowStartTime, IdleFields, now)

\* The observer's record of the events a step submitted.
Submitted(le, e) == [le EXCEPT ![e.windowId] = Max(@, e.endTime)]

Task(kind, pc, then, win) == [kind |-> kind, pc |-> pc, then |-> then, win |-> win]

\* The scenarios of SpecTrk: the user gives input all the time, or has
\* given none for 59 s when the run begins and gives input again after 2 s.
\* All the windows can get the focus.
TrkScenarios ==
    { [idleFrom |-> f, idleTo |-> t, tick |-> TrkTick, horizon |-> MaxTicks * TrkTick,
       startBy |-> MaxTicks * TrkTick, stopFrom |-> 0,
       desktop |-> {NoWindow, WindowA, WindowB, WindowChrome}] :
        <<f, t>> \in { <<0, 0>>,
                       <<POLL_INTERVAL - IDLE_THRESHOLD_SECONDS * 1000, 2 * POLL_INTERVAL>> } }

\* The scenarios of SpecIdle: one application window keeps the focus for
\* 72 s, the tracker is started at 0 s and stopped at 72 s; the user gives
\* no input from 5 s to 70 s, or the system idle time reaches the threshold
\* at 5 s and the user gives input again at 70 s. Time advances by poll
\* intervals.
IdleScenarios ==
    { [idleFrom |-> f, idleTo |-> 70000, tick |-> POLL_INTERVAL, horizon |-> 72000,
       startBy |-> 0, stopFrom |-> 72000, desktop |-> {WindowA}] :
        f \in {5000, 5000 - IDLE_THRESHOLD_SECONDS * 1000} }

\* The scenarios of SpecTitle: those of SpecTrk on a desktop of two
\* application windows, the first of which gets another title at 1 s or
\* later.
TitleScenarios ==
    { [idleFrom |-> sc.idleFrom, idleTo |-> sc.idleTo, tick |-> sc.tick,
       horizon |-> sc.horizon, startBy |-> sc.startBy, stopFrom |-> sc.stopFrom,
       desktop |-> {WindowA, WindowB}, retitleFrom |-> POLL_INTERVAL] :
        sc \in TrkScenarios }

\* native-messaging.ts:349-368: the tracker after construction, in one of
\* the scenarios scs with one of the windows foci focused.
TrkInit(scs, foci) ==
    /\ scenario \in scs
    /\ now = 0
    /\ focused \in foci
    /\ pollTimer = NoTimer
    /\ trkRunning = FALSE
    /\ currentWindow = NoWindow
    /\ windowStartTime = NoTime
    /\ isUserIdle = FALSE
    /\ idleStartTime = NoTime
    /\ accumulatedIdleTime = 0
    /\ tasks = <<>>
    /\ trkEmitted = <<>>
    /\ lastEnd = [w \in WindowIds |-> NoTime]
    /\ stopResolved = FALSE
    /\ idleSince = NoTime
    /\ idleInWindow = 0

\* native-messaging.ts:397-428: start(). The window reported is tracked
\* unless a browser owns it, the interval is armed and 'started' emitted.
\* The caller starts the tracker no later than the scenario says.
TrkStart ==
    /\ ~trkRunning
    /\ now <= scenario.startBy
    /\ IF focused # NoWindow /\ ~isBrowserApp(focused.name)
       THEN currentWindow' = focused /\ windowStartTime' = now /\ idleInWindow' = 0
       ELSE UNCHANGED <<currentWindow, windowStartTime, idleInWindow>>
    /\ pollTimer' = POLL_INTERVAL
    /\ trkRunning' = TRUE
    /\ stopResolved' = FALSE
    /\ trkEmitted' = <<TrkEv("started")>>
    /\ UNCHANGED <<scenario, now, focused, isUserIdle, idleStartTime, accumulatedIdleTime,
                   tasks, lastEnd, idleSince>>
    /\ UNCHANGED <<hostVars, supVars, srvVars, encVars, appVars>>

\* native-messaging.ts:416 and 461-484: the interval fires and poll() runs
\* up to its await of activeWin().
PollFires ==
    /\ pollTimer = 0
    /\ Len(tasks) < MaxTasks
    /\ pollTimer' = POLL_INTERVAL
    /\ LET after == PollIdle(IdleFields, checkIdleState(scenario, now), now)
       IN  /\ isUserIdle' = after.isUserIdle
           /\ idleStartTime' = after.idleStartTime
           /\ accumulatedIdleTime' = after.accumulatedIdleTime
           /\ trkEmitted' = after.out
           /\ idleSince' = IF after.out = <<TrkEv("idleStateChanged true")>> THEN now
                            ELSE idleSince
    /\ tasks' = Append(tasks, Task("poll", "activeWin", "none", NoWindow))
    /\ UNCHANGED <<scenario, now, focused, trkRunning, currentWindow, windowStartTime,
                   lastEnd, stopResolved, idleInWindow>>
    /\ UNCHANGED <<hostVars, supVars, srvVars, encVars, appVars>>

\* native-messaging.ts:489-491, 503-505 and 530-533, with 552-556: what
\* poll() does once the flush it awaited, if any, is over: it clears the
\* tracked window, or tracks the window win from now on.
AfterFlush(then, win) ==
    /\ currentWindow' = IF then = "track" THEN win ELSE NoWindow
    /\ windowStartTime' = IF then = "track" THEN now ELSE NoTime
    /\ accumulatedIdleTime' = 0
    /\ idleStartTime' = NoTime
    /\ idleInWindow' = 0

\* Mutant: a window whose title differs counts as another window.
WindowChangedByTitle(current, new) ==
    \/ current = NoWindow
    \/ current.id # new.id
    \/ current.pid # new.pid
    \/ current.title # new.title

\* native-messaging.ts:522-524
WindowChanged(current, new) ==
    \/ current = NoWindow
    \/ current.id # new.id
    \/ current.pid # new.pid

\* native-messaging.ts:484-542: activeWin() returns to the poll() call i.
\* Without a window, or with one a browser owns, the tracked window is
\* flushed and cleared; with another window than the tracked one the
\* tracked window is flushed and the other one tracked; with the tracked
\* one its title is taken over. A flush that sends waits for the backend.
ActiveWinResolves(i) ==
    /\ i \in 1..Len(tasks)
    /\ tasks[i].pc = "activeWin"
    /\ LET window == focused
           windowChanged == WindowChanged(currentWindow, window)
           then == IF window = NoWindow
                   THEN (IF currentWindow # NoWindow THEN "clear" ELSE "none")
                   ELSE IF isBrowserApp(window.name)
                   THEN (IF currentWindow # NoWindow /\ windowStartTime # NoTime
                         THEN "clear" ELSE "none")
                   ELSE IF windowChanged THEN "track" ELSE "title"
       IN  IF then = "none"
           THEN /\ tasks' = RemoveAt(tasks, i)
                /\ trkEmitted' = <<>>
                /\ UNCHANGED <<currentWindow, windowStartTime, accumulatedIdleTime,
                               idleStartTime, lastEnd, idleInWindow>>
           ELSE IF then = "title"
           THEN /\ tasks' = RemoveAt(tasks, i)
                /\ trkEmitted' = <<>>
                /\ currentWindow' = [currentWindow EXCEPT !.title = window.title]
                /\ UNCHANGED <<windowStartTime, accumulatedIdleTime, idleStartTime,
                               lastEnd, idleInWindow>>
           ELSE IF FlushesNow
           THEN /\ tasks' = [tasks EXCEPT ![i] = Task("poll", "send", then, window)]
                /\ trkEmitted' = <<EventNow>>
                /\ lastEnd' = Submitted(lastEnd, EventNow)
                /\ UNCHANGED <<currentWindow, windowStartTime, accumulatedIdleTime,
                               idleStartTime, idleInWindow>>
           ELSE /\ tasks' = RemoveAt(tasks, i)
                /\ trkEmitted' = <<>>
                /\ AfterFlush(then, window)
                /\ UNCHANGED lastEnd
    /\ UNCHANGED <<scenario, now, focused, pollTimer, trkRunning, isUserIdle, stopResolved,
                   idleSince>>
    /\ UNCHANGED <<hostVars, supVars, srvVars, encVars, appVars>>

\* native-messaging.ts:640-654, then the caller of the flush: the backend
\* answers the submit of call i; 'activityRecorded' or 'error' is emitted
\* and poll() or stop() goes on.
SendResolves(i, ok) ==
    /\ i \in 1..Len(tasks)
    /\ tasks[i].pc = "send"
    /\ tasks' = RemoveAt(tasks, i)
    /\ IF tasks[i].kind = "stop"
       THEN /\ trkRunning' = FALSE
            /\ stopResolved' = TRUE
            /\ trkEmitted' = <<TrkEv(IF ok THEN "activityRecorded" ELSE "error"),
                               TrkEv("stopped")>>
            /\ UNCHANGED <<currentWindow, windowStartTime, accumulatedIdleTime,
                           idleStartTime, idleInWindow>>
       ELSE /\ AfterFlush(tasks[i].then, tasks[i].win)
            /\ trkEmitted' = <<TrkEv(IF ok THEN "activityRecorded" ELSE "error")>>
            /\ UNCHANGED <<trkRunning, stopResolved>>
    /\ UNCHANGED <<scenario, now, focused, pollTimer, isUserIdle, lastEnd, idleSince>>
    /\ UNCHANGED <<hostVars, supVars, srvVars, encVars, appVars>>

\* native-messaging.ts:433-449: stop(). The interval is cleared and the
\* tracked window flushed; after the flush isRunning is cleared and
\* 'stopped' emitted. The caller stops the tracker no earlier than the
\* scenario says.
TrkStop ==
    /\ now >= scenario.stopFrom
    /\ pollTimer' = NoTimer
    /\ IF FlushesNow
       THEN /\ Len(tasks) < MaxTasks
            /\ tasks' = Append(tasks, Task("stop", "send", "none", NoWindow))
            /\ trkEmitted' = <<EventNow>>
            /\ lastEnd' = Submitted(lastEnd, EventNow)
            /\ UNCHANGED <<trkRunning, stopResolved>>
       ELSE /\ trkRunning' = FALSE
            /\ stopResolved' = TRUE
            /\ trkEmitted' = <<TrkEv("stopped")>>
            /\ UNCHANGED <<tasks, lastEnd>>
    /\ UNCHANGED <<scenario, now, focused, currentWindow, windowStartTime, isUserIdle,
                   idleStartTime, accumulatedIdleTime, idleSince, idleInWindow>>
    /\ UNCHANGED <<hostVars, supVars, srvVars, encVars, appVars>>

\* Environment: another window of the desktop, or none, gets the focus.
FocusChanges(w) ==
    /\ w \in scenario.desktop
    /\ w # focused
    /\ focused' = w
    /\ trkEmitted' = <<>>
    /\ UNCHANGED <<scenario, now, pollTimer, trkRunning, currentWindow, windowStartTime,
                   isUserIdle, idleStartTime, accumulatedIdleTime, tasks, lastEnd,
                   stopResolved, idleSince, idleInWindow>>
    /\ UNCHANGED <<hostVars, supVars, srvVars, encVars, appVars>>

\* Environment: the application of the focused window WindowA changes the
\* window's title, no earlier than the scenario says.
Retitles ==
    /\ focused = WindowA
    /\ now >= scenario.retitleFrom
    /\ focused' = WindowARetitled
    /\ trkEmitted' = <<>>
    /\ UNCHANGED <<scenario, now, pollTimer, trkRunning, currentWindow, windowStartTime,
                   isUserIdle, idleStartTime, accumulatedIdleTime, tasks, lastEnd,
                   stopResolved, idleSince, idleInWindow>>
    /\ UNCHANGED <<hostVars, supVars, srvVars, encVars, appVars>>

\* One tick of the scenario passes; an interval that is due fires first.
TrkTime ==
    /\ pollTimer # 0
    /\ now < scenario.horizon
    /\ now' = now + scenario.tick
    /\ pollTimer' = IF pollTimer = NoTimer THEN NoTimer ELSE pollTimer - scenario.tick
    /\ trkEmitted' = <<>>
    /\ idleInWindow' = IF isUserIdle /\ windowStartTime # NoTime
                       THEN idleInWindow + scenario.tick ELSE idleInWindow
    /\ UNCHANGED <<scenario, focused, trkRunning, currentWindow, windowStartTime, isUserIdle,
                   idleStartTime, accumulatedIdleTime, tasks, lastEnd, stopResolved,
                   idleSince>>
    /\ UNCHANGED <<hostVars, supVars, srvVars, encVars, appVars>>

TrkNext ==
    \/ TrkStart
    \/ PollFires
    \/ \E i \in 1..MaxTasks : ActiveWinResolves(i)
    \/ \E i \in 1..MaxTasks, ok \in BOOLEAN : SendResolves(i, ok)
    \/ TrkStop
    \/ \E w \in {NoWindow, WindowA, WindowB, WindowChrome} : FocusChanges(w)
    \/ TrkTime

\* The tracker on two application windows, one of which changes its title.
TitleNext ==
    \/ TrkStart
    \/ PollFires
    \/ \E i \in 1..MaxTasks : ActiveWinResolves(i)
    \/ \E i \in 1..MaxTasks, ok \in BOOLEAN : SendResolves(i, ok)
    \/ TrkStop
    \/ \E w \in {WindowA, WindowB} : FocusChanges(w)
    \/ Retitles
    \/ TrkTime

\* The tracker on the one window of an idle scenario: the focus stays.
IdleNext ==
    \/ TrkStart
    \/ PollFires
    \/ \E i \in 1..MaxTasks : ActiveWinResolves(i)
    \/ \E i \in 1..MaxTasks, ok \in BOOLEAN : SendResolves(i, ok)
    \/ TrkStop
    \/ TrkTime

(***************************************************************************)
(*        Application start-up: index.ts, lines 87-144 and 172-186         *)
(***************************************************************************)

\* Requests the extension side makes of the Relay Server while the
\* application starts.
AppKinds == {"heartbeat", "connect", "activity_batch"}

AppIdle ==
    /\ appPc = "idle"
    /\ listening = FALSE
    /\ refused = FALSE

\* index.ts:172-180: the 'ready' handler has created the supervisor and the
\* server; initializeServices has not been called yet.
AppInit ==
    /\ appPc = "ready"
    /\ listening = FALSE
    /\ refused = FALSE

\* index.ts:185, 87-105: initializeServices registers the supervisor's
\* listeners and awaits pythonBridge.start().
initializeServices ==
    /\ appPc = "ready"
    /\ StartBody
    /\ emitted' = <<>>
    /\ appPc' = "awaitBackend"
    /\ UNCHANGED <<isRunning, healthCheckTimer, leakedTimer, restartAttempts,
                   restartTimers, stopWait, nRestarts, nSinceStarted>>
    /\ UNCHANGED <<listening, refused>>
    /\ UNCHANGED <<hostVars, srvVars, trkVars, encVars>>

\* index.ts:105-127, native-messaging.ts:39-53: the awaited start()
\* resolves; the server's listeners are registered and
\* nativeMessagingServer.start() binds the port.
BackendStartResolves ==
    /\ appPc = "awaitBackend"
    /\ StartResolves
    /\ appPc' = "initialized"
    /\ listening' = TRUE
    /\ UNCHANGED refused
    /\ UNCHANGED <<hostVars, srvVars, trkVars, encVars>>

\* index.ts:105, python-bridge.ts:61-65: the awaited start() throws; the
\* rest of initializeServices, nativeMessagingServer.start() included, is
\* not run, and the 'ready' handler (index.ts:185) has no catch.
BackendStartRejects ==
    /\ appPc = "awaitBackend"
    /\ StartRejects
    /\ appPc' = "failed"
    /\ UNCHANGED <<listening, refused>>
    /\ UNCHANGED <<hostVars, srvVars, trkVars, encVars>>

\* native-host.js:55-99: the host posts a message to the server's port.
\* native-messaging.ts:78-133 handles it when the server listens;
\* otherwise the request fails (native-host.js:86-89).
HostRequest(kind) ==
    IF listening
    THEN SrvHandle(kind)
    ELSE /\ ~refused
         /\ refused' = TRUE
         /\ UNCHANGED <<appPc, listening>>
         /\ UNCHANGED <<hostVars, supVars, srvVars, trkVars, encVars>>

\* python-bridge.ts:234-285: a request of the server to the backend ends;
\* it has an answer only if the backend process runs.
BackendRequestEnds(i, ok) ==
    /\ ok => BackendUp
    /\ BackendAnswers(i, ok)

AppNext ==
    \/ initializeServices
    \/ BackendStartResolves
    \/ BackendStartRejects
    \/ \E kind \in AppKinds : HostRequest(kind)
    \/ \E i \in 1..MaxInFlight, ok \in BOOLEAN : BackendRequestEnds(i, ok)
    \/ \E i \in 1..MaxPending : RestartTimerFires(i)
    \/ (appPc # "awaitBackend" /\ StartSucceeds)
    \/ (appPc # "awaitBackend" /\ StartTimesOut)
    \/ \E ok \in BOOLEAN : PeriodicHealthCheck(ok)
    \/ \E p \in Slots, x \in ExitStatuses : ProcessExits(p, x[1], x[2])

\* The tracker as the other specifications hold it: constructed, not started.
TrkIdle == TrkInit({CHOOSE sc \in TrkScenarios : sc.idleFrom = 0}, {NoWindow})

Init == HostInit /\ SupInit(MaxProcs) /\ SrvInit /\ TrkIdle /\ EncIdle /\ AppIdle

InitApp == HostInit /\ SupInit(MaxProcs + 1) /\ SrvInit /\ TrkIdle /\ EncIdle /\ AppInit

InitEnc == HostInit /\ SupInit(MaxProcs) /\ SrvInit /\ TrkIdle /\ EncInit(Messages) /\ AppIdle

InitRace == HostInit /\ SupInit(MaxProcs + 1) /\ SrvInit /\ TrkIdle /\ EncIdle /\ AppIdle

InitTrk ==
    /\ HostInit /\ SupInit(MaxProcs) /\ SrvInit /\ EncIdle /\ AppIdle
    /\ TrkInit(TrkScenarios, {NoWindow, WindowA, WindowB, WindowChrome})

InitIdle ==
    /\ HostInit /\ SupInit(MaxProcs) /\ SrvInit /\ EncIdle /\ AppIdle
    /\ TrkInit(IdleScenarios, {WindowA})

SpecHost == Init /\ [][HostNext]_vars

SpecEnc == InitEnc /\ [][EncNext]_vars

SpecSup == Init /\ [][SupNext]_vars

\* The supervisor with room for one more child process.
SpecSupRace == InitRace /\ [][SupNext]_vars

SpecSrv == Init /\ [][SrvNext]_vars

\* The server with a backend whose answers may lack the session id.
SpecSrvBody == Init /\ [][SrvBodyNext]_vars

SpecTrk == InitTrk /\ [][TrkNext]_vars

InitTitle ==
    /\ HostInit /\ SupInit(MaxProcs) /\ SrvInit /\ EncIdle /\ AppIdle
    /\ TrkInit(TitleScenarios, {WindowA, WindowB})

\* The tracker with a window that changes its title.
SpecTitle == InitTitle /\ [][TitleNext]_vars

SpecIdle == InitIdle /\ [][IdleNext]_vars

\* The application's start-up with the supervisor and the server it starts.
SpecApp == InitApp /\ [][AppNext]_vars

(***************************************************************************)
(*                       Claims on the Stream Relay Host                   *)
(***************************************************************************)

\* Bytes of the frames of the first n payloads of s.
RECURSIVE FramesLen(_, _)
FramesLen(s, n) == IF n = 0 THEN 0 ELSE FramesLen(s, n - 1) + 4 + Len(s[n])

\* All bytes the extension has written, in order.
RECURSIVE Stream(_, _)
Stream(s, n) == IF n = 0 THEN <<>> ELSE Stream(s, n - 1) \o Frame(s[n])

\* Bytes the host has read so far, and the frames that lie wholly in them.
BytesRead == FramesLen(sent, Len(sent)) - Len(pipe)
WholeFrames ==
    CHOOSE n \in 0..Len(sent) :
        /\ FramesLen(sent, n) <= BytesRead
        /\ \A m \in (n + 1)..Len(sent) : FramesLen(sent, m) > BytesRead

AllFramesValid == \A i \in 1..Len(sent) : JSONParse(sent[i]).ok

\* C1: when every frame sent is valid, then whatever the chunks were, the
\* messages handed to handleMessage are exactly the messages of the frames
\* that lie wholly in the bytes read so far, in the order sent, and the
\* buffer holds exactly the bytes of the frame that is still incomplete.
C1_SplitPointInvariant ==
    AllFramesValid =>
        /\ Len(reqs) = WholeFrames
        /\ \A i \in 1..Len(reqs) : reqs[i].msg = JSONParse(sent[i]).value
        /\ inputBuffer =
              SubSeq(Stream(sent, Len(sent)), FramesLen(sent, WholeFrames) + 1, BytesRead)

\* C1 witness: of two valid frames the first was decoded while the second
\* is buffered in part (its prefix and some of its payload), and the second
\* frame decoded after having been buffered over several reads.
C1_Witness ==
    /\ AllFramesValid
    /\ Len(sent) = 2
    /\ Len(reqs) = 1
    /\ Len(inputBuffer) > 4
    /\ pipe # <<>>

Replies(i) == {j \in 1..Len(stdout) : stdout[j].req = i}

\* C2 (as stated): every message handed to handleMessage gets exactly one
\* reply frame: never two, and none is missing once the host has exited on
\* end of input.
C2_ExactlyOneReply ==
    /\ \A i \in 1..Len(reqs) : Cardinality(Replies(i)) <= 1
    /\ \A i \in 1..Len(reqs) : reqs[i].st = "done" => Cardinality(Replies(i)) = 1
    /\ exited = "stdin_end" => \A i \in 1..Len(reqs) : Cardinality(Replies(i)) = 1

\* C3 (as stated): the Relay Server handles the messages of one stream in
\* the order of their frames.
C3_ServerHandlesInOrder ==
    \A a, b \in 1..Len(serverLog) : a < b => serverLog[a] < serverLog[b]

\* C38: the replies to the messages handed to handleMessage are written
\* to stdout in the order in which the messages were read.
C38_RepliesInRequestOrder ==
    \A a, b \in 1..Len(stdout) :
        (a < b /\ stdout[a].req # 0 /\ stdout[b].req # 0) => stdout[a].req < stdout[b].req

\* The payloads of the model that are JSON texts, and the frames sent
\* among the first n whose payload is one, in order.
JsonTexts == {TextConnect, TextHeartbeat, TextBatch, TextString}
RECURSIVE ValidAmong(_, _)
ValidAmong(s, n) ==
    IF n = 0 THEN <<>>
    ELSE ValidAmong(s, n - 1) \o (IF s[n] \in JsonTexts THEN <<n>> ELSE <<>>)

\* C22: whatever the chunks were, every frame that lies wholly in the bytes
\* read was consumed with exactly its 4 + length bytes; the frames whose
\* payload is not JSON were answered 'Invalid JSON message' and not handed
\* to handleMessage, and the messages handed to handleMessage are those of
\* the valid frames among them, in the order sent.
C22_InvalidFrameDropped ==
    LET valid == ValidAmong(sent, WholeFrames)
    IN  /\ Len(reqs) = Len(valid)
        /\ \A i \in 1..Len(reqs) : reqs[i].msg = JSONParse(sent[valid[i]]).value
        /\ Cardinality(Replies(0)) = WholeFrames - Len(valid)
        /\ \A j \in Replies(0) : stdout[j].msg = InvalidJsonReply
        /\ inputBuffer =
              SubSeq(Stream(sent, Len(sent)), FramesLen(sent, WholeFrames) + 1, BytesRead)

\* A frame that is not JSON was dropped and answered, and the valid frame
\* sent after it was decoded and handed to handleMessage.
C22_Witness ==
    /\ Len(sent) = 2
    /\ sent[1] = TextBroken
    /\ sent[2] = TextBatch
    /\ Len(reqs) = 1
    /\ reqs[1].msg.type = "activity_batch"
    /\ Replies(0) # {}
    /\ inputBuffer = <<>>

\* The error text the host replies with when the forward of a message of
\* the given type failed with the transport error text.
FailureText(type, transport) ==
    CASE type = "connect"        -> "Desktop app not running. Please start the Focus App."
      [] type = "activity_batch" -> "Failed to process activity batch"
      [] type = "heartbeat"      -> "Desktop app not responding"
      [] OTHER                   -> transport

CrashLogged(e) ==
    /\ e # <<>>
    /\ e[1].ev = "exit"
    /\ e[1].code # 0
    /\ e[1].signal = "none"
ExitLogged(e) == e # <<>> /\ e[1].ev = "exit"
Emits(e, name) == \E k \in 1..Len(e) : e[k].ev = name

\* C4 (as stated): a restart is scheduled only by an exit with a non-zero
\* code and no signal, and at most MAX_RESTART_ATTEMPTS times in the life
\* of the supervisor; the crash after those schedules nothing and leaves
\* the supervisor not running.
C4_AtMostThreePerInstance ==
    [][ /\ Len(restartTimers') > Len(restartTimers) =>
              CrashLogged(emitted') /\ nRestarts' <= MAX_RESTART_ATTEMPTS
        /\ (CrashLogged(emitted') /\ nRestarts = MAX_RESTART_ATTEMPTS) =>
              restartTimers' = restartTimers /\ ~isRunning'
      ]_vars

\* C4 (amended): a restart is scheduled only by an exit with a non-zero
\* code and no signal, and at most MAX_RESTART_ATTEMPTS times since
\* 'started' was last emitted; a crash after those schedules nothing and
\* leaves isRunning false.
C4_AtMostThreeSinceStarted ==
    [][ /\ Len(restartTimers') > Len(restartTimers) =>
              CrashLogged(emitted') /\ nSinceStarted' <= MAX_RESTART_ATTEMPTS
        /\ (CrashLogged(emitted') /\ nSinceStarted = MAX_RESTART_ATTEMPTS) =>
              restartTimers' = restartTimers /\ ~isRunning'
        /\ (ExitLogged(emitted') /\ ~CrashLogged(emitted')) =>
              restartTimers' = restartTimers /\ ~isRunning'
      ]_vars

\* C4 witness: the child has just crashed after three restarts in a row
\* were scheduled: nothing is pending and the supervisor is not running.
C4_Witness ==
    /\ CrashLogged(emitted)
    /\ nSinceStarted = MAX_RESTART_ATTEMPTS
    /\ restartTimers = <<>>
    /\ ~isRunning

\* C5 (as stated): a crash that finds the restart budget used up emits an
\* 'error' event besides 'stopped'.
C5_FatalErrorWhenExhausted ==
    [][ (CrashLogged(emitted') /\ restartAttempts = MAX_RESTART_ATTEMPTS) =>
            Emits(emitted', "error")
      ]_vars

\* C6 (as stated): the k-th restart the supervisor schedules in its life
\* is delayed by k times RESTART_DELAY_MS.
C6_DelayByLifetimeOrdinal ==
    [][ (nRestarts' # nRestarts /\ nRestarts' <= MAX_RESTART_ATTEMPTS) =>
            restartTimers'[Len(restartTimers')] = RESTART_DELAY_MS * nRestarts'
      ]_vars

\* C6 (amended): the k-th restart scheduled since 'started' was last
\* emitted is delayed by k times RESTART_DELAY_MS, k in 1..3, so the delays
\* between two 'started' events are 2000, 4000, 6000 ms in this order.
C6_DelayBySinceStartedOrdinal ==
    [][ Len(restartTimers') > Len(restartTimers) =>
            /\ nSinceStarted' = nSinceStarted + 1
            /\ nSinceStarted' \in 1..MAX_RESTART_ATTEMPTS
            /\ restartTimers'[Len(restartTimers')] = RESTART_DELAY_MS * nSinceStarted'
      ]_vars

\* C6 witness: the third restart in a row is pending with its 6000 ms.
C6_Witness ==
    /\ CrashLogged(emitted)
    /\ nSinceStarted = MAX_RESTART_ATTEMPTS
    /\ restartTimers = <<RESTART_DELAY_MS * MAX_RESTART_ATTEMPTS>>

\* C7 (as stated): a start() that fails on the startup timeout leaves the
\* supervisor not running, and the step after it neither schedules a
\* restart nor fires one.
C7_NoRestartAfterStartupTimeout ==
    [][ /\ emitted' = <<StartupTimeoutError>> => ~isRunning'
        /\ emitted = <<StartupTimeoutError>> => restartTimers' = restartTimers
      ]_vars

\* C8 (as stated): stop() sends SIGTERM to the running child; when its 5 s
\* wait on a child ends with that child still running, the child has been
\* sent SIGKILL; and a stop() that resolves leaves the supervisor not
\* running and without a process handle.
C8_StopTerminatesKillsAndClears ==
    [][ /\ \A p \in Slots :
              (stopWait'[p] > stopWait[p] /\ Alive(procs[p])) =>
                  procs'[p] \in {"term", "kill"}
        /\ \A p \in Slots :
              (stopWait'[p] < stopWait[p] /\ Alive(procs'[p])) => procs'[p] = "kill"
        /\ ((\E p \in Slots : stopWait'[p] < stopWait[p])
              \/ (emitted' = <<Stopped>> /\ stopWait' = stopWait)) =>
              ~isRunning' /\ process' = 0
      ]_vars

(***************************************************************************)
(*                        Claims on the Relay Server                       *)
(***************************************************************************)

\* C9: since the last message was handled the flag has gone from true to
\* false at most once, with one 'extensionDisconnected' event per flip;
\* once more than 120 s have passed without a message and the flag has
\* been true in that time, it is false and has flipped exactly once; and
\* while less than 120 s have passed since the last message it has not
\* flipped.
C9_LivenessTimeout ==
    /\ flips <= 1
    /\ disconnectedEvents = flips
    /\ (sinceLastMsg > CONNECTION_TIMEOUT_MS /\ wasConnected) =>
          ~extensionConnected /\ flips = 1
    /\ sinceLastMsg < CONNECTION_TIMEOUT_MS => flips = 0

\* C9 witness: a connected extension has been silent for more than 120 s
\* and the flag has flipped.
C9_Witness ==
    /\ sinceLastMsg > CONNECTION_TIMEOUT_MS
    /\ wasConnected
    /\ ~extensionConnected
    /\ flips = 1
    /\ disconnectedEvents = 1

\* C10 (as stated): once two connects were handled, two sessions were
\* created for them and the later connect has got its session, every batch
\* handled since that connect carries the id of that session.
C10_BatchStampedWithLatestConnect ==
    \A i \in 1..Len(calls) :
        (/\ calls[i].kind = "submitActivityBatch"
         /\ calls[i].latest
         /\ nConnects >= 2
         /\ sessionsCreated >= 2
         /\ latestSession # 0) => calls[i].sid = latestSession

\* The step into a state was the end of a backend request of this kind
\* with this outcome.
RequestEnded(e, kind, ok) == e # <<>> /\ e[1] = RequestResult(kind, ok)

\* The step into a state handled a batch with events: its submit call is
\* the last one made.
BatchForwarded ==
    /\ Len(calls') = Len(calls) + 1
    /\ calls'[Len(calls')].kind = "submitActivityBatch"

\* C11: a connect whose session creation succeeds stores the new session,
\* sets the flag and replies last with { type: 'session', sessionId,
\* status: 'active' } for that session; 'extensionConnected' is emitted
\* exactly in the steps that take the flag from false to true and
\* 'extensionDisconnected' exactly in those that take it from true to
\* false, so the two events alternate, 'extensionConnected' first.
C11_ConnectSuccess ==
    [][ /\ RequestEnded(srvEmitted', "createSession", TRUE) =>
              /\ sessionsCreated' = sessionsCreated + 1
              /\ currentSession' = sessionsCreated'
              /\ extensionConnected'
              /\ srvEmitted'[Len(srvEmitted')] = SrvEv("reply session", currentSession')
              /\ Emits(srvEmitted', "sessionCreated")
        /\ Emits(srvEmitted', "extensionConnected") <=>
              (~extensionConnected /\ extensionConnected')
        /\ Emits(srvEmitted', "extensionDisconnected") <=>
              (extensionConnected /\ ~extensionConnected')
      ]_vars

\* C11 witness: a second connect has succeeded while the flag was true:
\* the session is replaced and no 'extensionConnected' is emitted.
C11_Witness ==
    /\ RequestEnded(srvEmitted, "createSession", TRUE)
    /\ currentSession = 2
    /\ extensionConnected
    /\ ~Emits(srvEmitted, "extensionConnected")

\* C12: a connect whose session creation fails replies with type error and
\* nothing else: the session held and the flag stay as they were and no
\* event is emitted.
C12_ConnectFailure ==
    [][ RequestEnded(srvEmitted', "createSession", FALSE) =>
            /\ currentSession' = currentSession
            /\ extensionConnected' = extensionConnected
            /\ srvEmitted' = <<RequestResult("createSession", FALSE),
                               SrvEv("reply error", 0)>>
      ]_vars

\* C12 witness: a connect has failed while a session was held and the flag
\* was true.
C12_Witness ==
    /\ RequestEnded(srvEmitted, "createSession", FALSE)
    /\ currentSession # 0
    /\ extensionConnected

\* C13: the submit call made for a batch with events carries the session
\* id the server holds at that moment, 0 (null) when it holds none, and the
\* call is made in both cases.
C13_StampedWithCurrentSession ==
    [][ BatchForwarded =>
            /\ calls'[Len(calls')].sid = currentSession
            /\ currentSession' = currentSession
      ]_vars

\* C13 witness: two batches are in flight, one stamped with no session and
\* one with a session.
C13_Witness ==
    /\ Len(calls) = 2
    /\ calls[1].kind = "submitActivityBatch" /\ calls[1].sid = 0
    /\ calls[2].kind = "submitActivityBatch" /\ calls[2].sid # 0

\* C14: when the submit call of a batch fails the server replies with type
\* error and nothing else, makes no further backend call, and leaves the
\* session and the flag as they were.
C14_BatchFailure ==
    [][ RequestEnded(srvEmitted', "submitActivityBatch", FALSE) =>
            /\ srvEmitted' = <<RequestResult("submitActivityBatch", FALSE),
                               SrvEv("reply error", 0)>>
            /\ Len(calls') = Len(calls) - 1
            /\ currentSession' = currentSession
            /\ extensionConnected' = extensionConnected
      ]_vars

\* C14 witness: the submit call of a batch has failed while a session was
\* held and another request was in flight.
C14_Witness ==
    /\ RequestEnded(srvEmitted, "submitActivityBatch", FALSE)
    /\ currentSession # 0
    /\ extensionConnected
    /\ calls # <<>>

(***************************************************************************)
(* Claims about the window focus tracker (native-messaging.ts:255-689).    *)
(***************************************************************************)

\* The events the step submits to the backend.
SubmittedNow(out) == { out[k] : k \in { j \in 1..Len(out) : out[j].ev = "submit" } }

\* The calls of poll() that wait on an await, in order.
PollTasks(ts) == SelectSeq(ts, LAMBDA t : t.kind = "poll")

\* The step is a call of stop().
StopCalled ==
    \/ Len(tasks') = Len(tasks) + 1 /\ tasks'[Len(tasks')].kind = "stop"
    \/ trkEmitted' = <<TrkEv("stopped")>>

\* C15: the tracker never submits two events for the same window whose
\* intervals overlap: every event submitted starts no earlier than the end
\* of every event submitted before for that window, also while a flush's
\* backend call is in flight when the interval fires or stop() is called.
C15_NoOverlappingEvents ==
    [][\A e \in SubmittedNow(trkEmitted') : e.startTime >= lastEnd[e.windowId]]_vars

\* C16: with the window focused from 0 s, the user idle from 5 s to 70 s
\* under the 60 s threshold and active again until 72 s, the flush at 72 s
\* submits one event for the whole interval with an active time of about
\* 2 s and an idle time of about 65 s, to the second.
C16_IdleFoldedIntoOneEvent ==
    \A e \in SubmittedNow(trkEmitted) :
        (e.startTime = 0 /\ e.endTime = 72000)
        => /\ e.activeTime \in (2000 - POLL_INTERVAL)..(2000 + POLL_INTERVAL)
           /\ e.idleTime \in (65000 - POLL_INTERVAL)..(65000 + POLL_INTERVAL)

\* C17: no event is submitted whose endTime minus startTime is below
\* MIN_ACTIVITY_DURATION, and no step taken while the tracked window is
\* younger than that, a flush included, submits an event.
C17_MinimumDuration ==
    [][/\ \A e \in SubmittedNow(trkEmitted') :
             e.endTime - e.startTime >= MIN_ACTIVITY_DURATION
       /\ (/\ currentWindow # NoWindow
           /\ windowStartTime # NoTime
           /\ now - windowStartTime < MIN_ACTIVITY_DURATION)
          => SubmittedNow(trkEmitted') = {}]_vars

\* stop() has just flushed a window tracked for less than a second and has
\* resolved without sending.
C17_Witness ==
    /\ trkEmitted = <<TrkEv("stopped")>>
    /\ currentWindow # NoWindow
    /\ windowStartTime # NoTime
    /\ now - windowStartTime > 0
    /\ now - windowStartTime < MIN_ACTIVITY_DURATION

\* C18: stop() submits the tracked window's interval, when it is at least a
\* second long, before it resolves; and once stop() has resolved no call of
\* poll() goes on and no event is submitted but by another call of stop().
C18_StopFlushesAndHalts ==
    [][/\ (StopCalled /\ FlushesNow) => EventNow \in SubmittedNow(trkEmitted')
       /\ (stopResolved /\ stopResolved')
          => /\ PollTasks(tasks') = PollTasks(tasks)
             /\ (SubmittedNow(trkEmitted') # {} => StopCalled)]_vars

\* C19: no event is submitted for the browser's window and the browser's
\* window is never the tracked one; a call of poll() that observes the
\* browser's window focused submits the tracked window, when it is at least
\* a second old, and ends with no window tracked.
C19_BrowserWindowsSkipped ==
    [][/\ \A e \in SubmittedNow(trkEmitted') : e.windowId # WindowChrome.id
       /\ currentWindow' # WindowChrome
       /\ \A i \in 1..Len(tasks) :
            /\ (/\ tasks[i].pc = "activeWin"
                /\ focused = WindowChrome
                /\ currentWindow # NoWindow
                /\ tasks' = [tasks EXCEPT ![i] = Task("poll", "send", "clear", WindowChrome)])
               => trkEmitted' = <<ActivityEvent(currentWindow, windowStartTime, IdleFields, now)>>
            /\ (/\ tasks[i].pc = "activeWin"
                /\ focused = WindowChrome
                /\ tasks' = RemoveAt(tasks, i))
               => currentWindow' = NoWindow
            /\ (/\ tasks[i] = Task("poll", "send", "clear", WindowChrome)
                /\ tasks' = RemoveAt(tasks, i))
               => currentWindow' = NoWindow]_vars

\* A call of poll() has observed the browser's window while WindowA was
\* tracked, has submitted WindowA and waits for the backend.
C19_Witness ==
    /\ \E i \in 1..Len(tasks) : tasks[i] = Task("poll", "send", "clear", WindowChrome)
    /\ \E e \in SubmittedNow(trkEmitted) : e.windowId = WindowA.id
    /\ currentWindow = WindowA

(***************************************************************************)
(* Claims about the host's encoder (native-host.js:39-50).                 *)
(***************************************************************************)

\* C20: every frame sendMessage writes has a 4-byte little-endian prefix
\* equal to the UTF-8 byte length of the JSON text of the message, and
\* that text's UTF-8 bytes follow it, also when the text has characters of
\* more than one byte.
C20_PrefixIsUtf8ByteLength ==
    encBuffer # <<>>
    => /\ readUInt32LE(encBuffer) = Len(Utf8(JSONStringify(encMessage)))
       /\ Slice(encBuffer, 4, Len(encBuffer)) = Utf8(JSONStringify(encMessage))

\* C21: the bytes sendMessage wrote for a message, fed to the frame reader,
\* give one decoded message equal to the original, no reply of the reader
\* and no byte left in the buffer.
C21_EncodeFeedRoundTrip ==
    encFeed.done
    => /\ Len(encFeed.calls) = 1
       /\ encFeed.calls[1].msg = encMessage
       /\ encFeed.out = <<>>
       /\ encFeed.buf = <<>>

(***************************************************************************)
(* Further claims about the Relay Server.                                  *)
(***************************************************************************)

\* The replies the step sent.
RepliesNow(out) ==
    { k \in 1..Len(out) :
        out[k].ev \in {"reply ack", "reply error", "reply session"} }

\* C24: the first reply the server sends after commands were accepted
\* carries these commands.
C24_CommandOnNextReply ==
    [][(commandsAccepted # <<>> /\ RepliesNow(srvEmitted') # {})
       => \E k \in RepliesNow(srvEmitted') :
             CommandsIn(srvEmitted'[k]) = commandsAccepted]_vars

\* C25: while the extension is deemed disconnected the server holds no
\* session: the session is dropped with the flag, the ack of a heartbeat
\* carries no session id and the events of a batch are stamped with none.
C25_SessionDroppedOnDisconnect ==
    [][/\ ~extensionConnected' => currentSession' = 0
       /\ ~extensionConnected
          => /\ \A k \in RepliesNow(srvEmitted') :
                   srvEmitted'[k].ev = "reply ack" => srvEmitted'[k].sid = 0
             /\ (/\ Len(calls') = Len(calls) + 1
                 /\ calls'[Len(calls')].kind = "submitActivityBatch")
                => calls'[Len(calls')].sid = 0]_vars

\* C36: the flag goes from false to true, and 'extensionConnected' is
\* emitted, only in the step in which a connect's session creation has
\* succeeded; a heartbeat or a batch handled while the flag is false is
\* answered or forwarded and leaves the flag false.
C36_ConnectedOnlyByConnect ==
    [][ /\ (~extensionConnected /\ extensionConnected')
              => RequestEnded(srvEmitted', "createSession", TRUE)
        /\ Emits(srvEmitted', "extensionConnected")
              => RequestEnded(srvEmitted', "createSession", TRUE)
        /\ ( /\ ~extensionConnected
             /\ \/ Emits(srvEmitted', "reply ack")
                \/ BatchForwarded
                \/ RequestEnded(srvEmitted', "submitActivityBatch", TRUE)
                \/ RequestEnded(srvEmitted', "submitActivityBatch", FALSE) )
           => /\ ~extensionConnected'
              /\ ~Emits(srvEmitted', "extensionConnected")
      ]_vars

\* C36 witness: a heartbeat has just been acked while a session is held
\* and the flag is false, that is after the timeout has cleared the flag a
\* connect had set.
C36_Witness ==
    /\ currentSession # 0
    /\ ~extensionConnected
    /\ srvEmitted = <<SrvEv("reply ack", currentSession)>>

\* The step handled a message whose body parsed: it made a backend call
\* or answered at once.
MessageHandled ==
    \/ Len(calls') = Len(calls) + 1
    \/ /\ srvEmitted' # <<>>
       /\ srvEmitted'[1].ev \in {"reply ack", "reply error"}

C40_SessionIdFromBackend ==
    /\ currentSession # 0 => currentSession \in 1..sessionsCreated
    /\ \A k \in 1..Len(srvEmitted) :
          srvEmitted[k].ev = "reply session" => srvEmitted[k].sid \in 1..sessionsCreated
    /\ extensionConnected => sessionsCreated > 0

(***************************************************************************)
(*               Further claims about the Window Focus Tracker             *)
(***************************************************************************)

\* C30: every event the tracker submits has idleTime = the idle time
\* accumulated for its window + the time since the idle period began when
\* the user is idle at the flush, and activeTime = max(0, (endTime -
\* startTime) - idleTime); so activeTime is not negative, and activeTime +
\* idleTime = endTime - startTime when idleTime is at most the elapsed time.
C30_EventTimesArithmetic ==
    [][\A e \in SubmittedNow(trkEmitted') :
          LET elapsed == e.endTime - e.startTime
              ongoing == IF isUserIdle /\ idleStartTime # NoTime
                         THEN e.endTime - idleStartTime ELSE 0
          IN  /\ e.idleTime = accumulatedIdleTime + ongoing
              /\ e.activeTime = Max(0, elapsed - e.idleTime)
              /\ e.activeTime >= 0
              /\ e.idleTime <= elapsed => e.activeTime + e.idleTime = elapsed]_vars

\* C30 witness: an event was submitted while the user was idle, with idle
\* time and active time both counted.
C30_Witness ==
    \E e \in SubmittedNow(trkEmitted) :
        /\ isUserIdle
        /\ e.idleTime > 0
        /\ e.activeTime > 0

\* The step is a call of poll().
PollCalled == pollTimer = 0 /\ pollTimer' = POLL_INTERVAL

\* C31: 'idleStateChanged' true is emitted exactly by the poll that finds
\* the system idle time at the threshold with the flag not set, false
\* exactly by the poll that finds it below with the flag set, so the two
\* alternate beginning with true; and the poll that emits false adds the
\* idle interval that ended, as far as it lies in the tracked window, to
\* the idle accumulator.
C31_IdleEventsAlternateAndAccumulate ==
    [][ /\ PollCalled =>
              /\ (trkEmitted' = <<TrkEv("idleStateChanged true")>>)
                    = (checkIdleState(scenario, now) /\ ~isUserIdle)
              /\ (trkEmitted' = <<TrkEv("idleStateChanged false")>>)
                    = (~checkIdleState(scenario, now) /\ isUserIdle)
        /\ trkEmitted' = <<TrkEv("idleStateChanged true")>> => ~isUserIdle /\ isUserIdle'
        /\ trkEmitted' = <<TrkEv("idleStateChanged false")>>
              => /\ isUserIdle /\ ~isUserIdle'
                 /\ accumulatedIdleTime' - accumulatedIdleTime
                       \in {now - idleSince, now - Max(idleSince, windowStartTime)}
      ]_vars

\* The calls of poll() that wait for activeWin().
AwaitingActiveWin(ts) == { i \in 1..Len(ts) : ts[i].pc = "activeWin" }

\* The step is the window part of a poll(): its activeWin() has returned.
WindowPartRuns == Cardinality(AwaitingActiveWin(tasks')) < Cardinality(AwaitingActiveWin(tasks))

\* An application window that the tracker tracks.
Trackable(w) == w # NoWindow /\ ~isBrowserApp(w.name)

C39_IdleTimeIsFlagTime ==
    [][\A e \in SubmittedNow(trkEmitted') : e.idleTime = idleInWindow]_vars

(***************************************************************************)
(*                Further claims about the Backend supervisor              *)
(***************************************************************************)

\* A call of stop() resolves in this step: one that found no process handle
\* or whose 5 s timer fired emits 'stopped' alone; one that waited for the
\* exit of a process resolves with that exit.
StopResolves ==
    \/ emitted' = <<Stopped>>
    \/ \E p \in Slots : stopWait'[p] < stopWait[p]

\* C27: when stop() resolves no periodic health-check interval remains
\* armed, whatever starts, crashes, automatic restarts and stops came
\* before.
C27_NoHealthCheckAfterStop ==
    [][StopResolves => (~healthCheckTimer' /\ ~leakedTimer')]_vars

C29_FailedHealthCheckOnlyReports ==
    [][ /\ emitted' = <<HealthCheckError>>
              => UNCHANGED <<procs, process, isRunning, healthCheckTimer, leakedTimer,
                             restartAttempts, restartTimers, starting, stopWait>>
        /\ (restartAttempts' > restartAttempts \/ Len(restartTimers') > Len(restartTimers))
              => /\ emitted' # <<>>
                 /\ emitted'[1].ev = "exit"
      ]_vars

\* C29 witness: a periodic health check has just failed while the
\* supervisor runs and its child is alive.
C29_Witness ==
    /\ emitted = <<HealthCheckError>>
    /\ isRunning
    /\ process # 0
    /\ procs[process] = "alive"

\* C33: at any time at most one child process spawned by the supervisor
\* runs and at most one call of start() is between its spawn and the end of
\* its readiness polling.
C33_OneChildOneStart ==
    /\ Cardinality({ p \in Slots : Alive(procs[p]) }) <= 1
    /\ starting <= 1

\* C34: when stop() resolves no restart timer is pending that could start
\* the backend afterwards, and the exit of a child that a stop() waits for
\* schedules no restart, whatever its exit status.
C34_NoStartAfterStop ==
    [][ /\ StopResolves => restartTimers' = <<>>
        /\ \A p \in Slots :
              (stopWait[p] > 0 /\ Alive(procs[p]) /\ ~Alive(procs'[p]))
                 => restartTimers' = restartTimers
      ]_vars

\* C35: restartAttempts is always in 0..MAX_RESTART_ATTEMPTS; every start
\* that reaches running sets it to 0; and a crash that finds it 0, as the
\* first crash after a start that reached running does, schedules a
\* restart after RESTART_DELAY_MS, so restarts go on beyond the budget of
\* three as long as the backend becomes healthy in between.
C35_BudgetPerConsecutiveCrashes ==
    /\ restartAttempts \in 0..MAX_RESTART_ATTEMPTS
    /\ [][ /\ restartAttempts' \in 0..MAX_RESTART_ATTEMPTS
           /\ emitted' = <<Started>> => restartAttempts' = 0
           /\ (CrashLogged(emitted') /\ restartAttempts = 0)
                 => /\ restartAttempts' = 1
                    /\ restartTimers' = Append(restartTimers, RESTART_DELAY_MS)
         ]_vars

\* C35 witness: more restarts than the budget of three have been scheduled,
\* and the latest, after a healthy start, is pending with the 2 s delay.
C35_Witness ==
    /\ nRestarts > MAX_RESTART_ATTEMPTS
    /\ restartAttempts = 1
    /\ restartTimers = <<RESTART_DELAY_MS>>
    /\ CrashLogged(emitted)

(***************************************************************************)
(*                  Claims about the application start-up                  *)
(***************************************************************************)

\* C26: a backend that fails to start is not fatal to the extension side:
\* once the start of the backend has settled, with a failure included, the
\* Relay Server has been started and listens for the extension's requests.
C26_ServerStartedWhateverBackend ==
    appPc \in {"initialized", "failed"} => listening

====
